---- MODULE Spec2Model ----
(***************************************************************************)
(* Film-simulation grading engine: the LUT synthesizer                     *)
(* (services/lutGenerator.ts), the pixel processor with its local mask     *)
(* compositor and texture pass (applyLUT and applyTexture) and the host    *)
(* that schedules renders (App.tsx).                                       *)
(*                                                                         *)
(* Numbers.  The code computes in IEEE doubles.  Here a number is a        *)
(* fixed-point integer counting units of 1/ONE (12 fractional bits); every *)
(* product and quotient is rounded down to that grid.  Bytes, indices and  *)
(* slider values are plain integers.  NaN stands for every non-finite      *)
(* double (NaN, +Infinity, -Infinity) and is absorbing in all arithmetic.  *)
(*                                                                         *)
(* Evaluation.  Bind(e, LAMBDA x : body) is body with x standing for the   *)
(* value of e, computed once (a local constant of the code).               *)
(***************************************************************************)
EXTENDS Integers, Sequences, FiniteSets, TLC

\* ---------------------------------------------------------------------
\* State of the host (App.tsx) and of the engine
\* ---------------------------------------------------------------------
\* A value that may be null is a sequence: <<>> for null, <<v>> for v.
VARIABLES
  originalImage,    \* the uploaded image as drawn on the original canvas, or null
  currentFilm,      \* selected film
  intensity,        \* filter intensity, fixed-point in [0, ONE]
  adjustments,      \* the Adjustments record
  masks,            \* list of MaskLayer
  activeMaskId,     \* id of the mask being edited, or null
  currentFinalLUT,  \* currentFinalLUT.current : the cached LUT container, or null
  lutTimer,         \* pending timer of the LUT effect, or null
  renderTimer,      \* pending timer of the render effect, or null
  isProcessing,     \* busy flag
  histogramData,    \* histogram of the last render, or null
  processedCanvas,  \* image last put on the processed canvas, or null
  random,           \* state of the generator most recently created by mulberry32
  lastCall,         \* arguments and result of the most recent applyLUT call, or null
  lastCommit,       \* the handler or timer callback that ran last, or null
  events,           \* number of user events handled so far
  batch,            \* the run of handleBatchUpload: its closure, the files left and
                    \* the outputs zipped so far, or null
  maskCanvas,       \* maskCanvasRef.current : the canvas the brush draws on, or null
  brushSettings     \* the BrushSettings record

vars == << originalImage, currentFilm, intensity, adjustments, masks, activeMaskId,
           currentFinalLUT, lutTimer, renderTimer, isProcessing, histogramData,
           processedCanvas, random, lastCall, lastCommit, events, batch, maskCanvas,
           brushSettings >>

\* ---------------------------------------------------------------------
\* Local constants
\* ---------------------------------------------------------------------
Val(S) == CHOOSE v \in S : TRUE

Bind(a, F(_)) == Val({ F(x) : x \in {a} })
Bind2(a, b, F(_, _)) == Val({ F(x, y) : x \in {a}, y \in {b} })
Bind3(a, b, c, F(_, _, _)) == Val({ F(x, y, z) : x \in {a}, y \in {b}, z \in {c} })

\* the sequence F(1), ..., F(n), each element computed once
ForEach(n, F(_)) == [p \in 1..n |-> F(p)] \o <<>>

\* ---------------------------------------------------------------------
\* Fixed-point arithmetic
\* ---------------------------------------------------------------------
ONE == 2^12
HALF == ONE \div 2
NaN == -(2^30)

Fix(n) == n * ONE

FAdd(a, b) == Bind2(a, b, LAMBDA x, y : IF x = NaN \/ y = NaN THEN NaN ELSE x + y)
FSub(a, b) == Bind2(a, b, LAMBDA x, y : IF x = NaN \/ y = NaN THEN NaN ELSE x - y)

\* a*b/ONE, rounded down, without leaving 32-bit range
FMul(a, b) ==
  Bind2(a, b, LAMBDA x, y :
    IF x = NaN \/ y = NaN THEN NaN
    ELSE (x \div ONE) * (y \div ONE) * ONE + (x \div ONE) * (y % ONE)
         + (x % ONE) * (y \div ONE) + (((x % ONE) * (y % ONE)) \div ONE))

\* the ONE-scaled fraction rem/b (0 <= rem < b), by long division;
\* rem and b are plain values
RECURSIVE FracBits(_, _, _)
FracBits(rem, b, n) ==
  IF n = 0 THEN 0
  ELSE IF 2 * rem >= b THEN 2^(n - 1) + FracBits(2 * rem - b, b, n - 1)
  ELSE FracBits(2 * rem, b, n - 1)

\* a/b for fixed-point a, b; division by zero yields a non-finite value
FDiv(a, b) ==
  Bind2(a, b, LAMBDA x, y :
    IF x = NaN \/ y = NaN \/ y = 0 THEN NaN
    ELSE IF y > 0
         THEN Bind(x % y, LAMBDA rem : ((x \div y) * ONE) + FracBits(rem, y, 12))
         ELSE Bind((-x) % (-y), LAMBDA rem :
                (((-x) \div (-y)) * ONE) + FracBits(rem, -y, 12)))

\* a*n/d for a fixed-point a and integers n, d (d > 0): a times the decimal n/d
FScale(a, n, d) ==
  Bind(a, LAMBDA x : IF x = NaN THEN NaN ELSE (x \div d) * n + (((x % d) * n) \div d))

\* JavaScript remainder a % m (m > 0): sign of the dividend
FRem(a, m) ==
  Bind(a, LAMBDA x : IF x = NaN THEN NaN ELSE IF x >= 0 THEN x % m ELSE -((-x) % m))

FMin(a, b) ==
  Bind2(a, b, LAMBDA x, y : IF x = NaN \/ y = NaN THEN NaN ELSE IF x < y THEN x ELSE y)
FMax(a, b) ==
  Bind2(a, b, LAMBDA x, y : IF x = NaN \/ y = NaN THEN NaN ELSE IF x > y THEN x ELSE y)
FAbs(a) == Bind(a, LAMBDA x : IF x = NaN THEN NaN ELSE IF x < 0 THEN -x ELSE x)

\* Math.floor of a fixed-point number, as an integer
Floor(a) == a \div ONE

\* Math.sqrt of a non-negative fixed-point number; n, lo, hi are plain values
RECURSIVE SqrtSearch(_, _, _)
SqrtSearch(n, lo, hi) ==
  IF lo >= hi THEN lo
  ELSE Bind((lo + hi + 1) \div 2, LAMBDA mid :
         IF mid * mid <= n THEN SqrtSearch(n, mid, hi) ELSE SqrtSearch(n, lo, mid - 1))

FSqrt(a) ==
  Bind(a, LAMBDA x : IF x = NaN \/ x < 0 THEN NaN ELSE SqrtSearch(x * ONE, 0, 46340))

\* ---------------------------------------------------------------------
\* Typed-array stores and integer conversions
\* ---------------------------------------------------------------------
\* Store into a plain Uint8Array, for comparison: truncation, modulo 256
ToUint8(a) ==
  Bind(a, LAMBDA x :
    IF x = NaN THEN 0
    ELSE IF x >= 0 THEN (x \div ONE) % 256 ELSE (256 - (((-x) \div ONE) % 256)) % 256)

\* Store into a Uint8ClampedArray: clamp to [0,255], round half to even, NaN -> 0
ToUint8Clamped(a) ==
  Bind(a, LAMBDA x :
    IF x = NaN THEN 0
    ELSE IF x <= 0 THEN 0
    ELSE IF x >= Fix(255) THEN 255
    ELSE IF x % ONE < HALF THEN x \div ONE
    ELSE IF x % ONE > HALF THEN (x \div ONE) + 1
    ELSE IF (x \div ONE) % 2 = 0 THEN x \div ONE ELSE (x \div ONE) + 1)

\* x | 0 : truncation toward zero, NaN -> 0
ToInt32(a) ==
  Bind(a, LAMBDA x :
    IF x = NaN THEN 0 ELSE IF x >= 0 THEN x \div ONE ELSE -((-x) \div ONE))

\* Math.round: round half up
MathRound(a) == (a + HALF) \div ONE

\* ---------------------------------------------------------------------
\* mulberry32: 32-bit words as <<high 16 bits, low 16 bits>>
\* ---------------------------------------------------------------------
W16 == 2^16

\* x, y, n are plain values
RECURSIVE BitXor(_, _, _)
BitXor(x, y, n) ==
  IF n = 0 THEN 0
  ELSE (((x % 2) + (y % 2)) % 2) + 2 * BitXor(x \div 2, y \div 2, n - 1)

RECURSIVE BitOr(_, _, _)
BitOr(x, y, n) ==
  IF n = 0 THEN 0
  ELSE (IF x % 2 = 1 \/ y % 2 = 1 THEN 1 ELSE 0) + 2 * BitOr(x \div 2, y \div 2, n - 1)

Xor32(a, b) ==
  Bind2(a, b, LAMBDA x, y : <<BitXor(x[1], y[1], 16), BitXor(x[2], y[2], 16)>>)
Or32(a, k) == Bind(a, LAMBDA x : <<x[1], BitOr(x[2], k, 16)>>)

Add32(a, b) ==
  Bind2(a, b, LAMBDA x, y :
    <<(x[1] + y[1] + ((x[2] + y[2]) \div W16)) % W16, (x[2] + y[2]) % W16>>)

\* t >>> k for 0 < k < 16
Shr32(a, k) ==
  Bind(a, LAMBDA x :
    <<x[1] \div (2^k), (x[2] \div (2^k)) + (x[1] % (2^k)) * (2^(16 - k))>>)

\* low 16 bits of x*y for 16-bit x, y
MulLow16(x, y) == ((x % 256) * y + (((x \div 256) * y) % 256) * 256) % W16

\* Math.imul: low 32 bits of the product
Imul(a, b) ==
  Bind2(a, b, LAMBDA x, y :
    Bind((((x[2] \div 256) * (y[2] % 256) + (x[2] % 256) * (y[2] \div 256)) * 256)
           + (x[2] % 256) * (y[2] % 256),
         LAMBDA t :
           << ((((x[2] \div 256) * (y[2] \div 256) + (t \div W16)) % W16)
               + ((MulLow16(x[1], y[2]) + MulLow16(y[1], x[2])) % W16)) % W16,
              t % W16 >>))

SEED == 1337
Increment == <<27947, 31221>>      \* 0x6D2B79F5

\* the generator returned by mulberry32(a): its state is the captured a
mulberry32(a) == <<a \div W16, a % W16>>

\* one call of the generator in state a: the new state and the 32-bit result
RandomStep(a) ==
  Bind(Add32(a, Increment), LAMBDA a1 :
  Bind(Imul(Xor32(a1, Shr32(a1, 15)), Or32(a1, 1)), LAMBDA t1 :
  Bind(Xor32(t1, Add32(t1, Imul(Xor32(t1, Shr32(t1, 7)), Or32(t1, 61)))), LAMBDA t2 :
    [state |-> a1, word |-> Xor32(t2, Shr32(t2, 14))])))

\* word / 4294967296 as a fixed-point number in [0, ONE)
RandomValue(u) == (u[1] * ONE) \div W16

\* ---------------------------------------------------------------------
\* LUT synthesizer (services/lutGenerator.ts)
\* ---------------------------------------------------------------------
LUT_SIZE == 32

Films == {"Provia", "Velvia", "Astia", "ClassicChrome", "RealaAce", "ClassicNeg",
          "NostalgicNeg", "Eterna", "Acros", "AcrosYe", "AcrosR", "AcrosG", "Sepia"}

Max3(a, b, c) == FMax(a, FMax(b, c))
Min3(a, b, c) == FMin(a, FMin(b, c))

\* 0.299 r + 0.587 g + 0.114 b
Luma601(r0, g0, b0) ==
  Bind3(r0, g0, b0, LAMBDA r, g, b :
    IF r = NaN \/ g = NaN \/ b = NaN THEN NaN
    ELSE (r \div 1000) * 299 + (g \div 1000) * 587 + (b \div 1000) * 114
         + (((r % 1000) * 299 + (g % 1000) * 587 + (b % 1000) * 114) \div 1000))

clamp(v) == FMax(0, FMin(Fix(255), v))

softLight(base, blend) ==
  Bind2(FScale(base, 1, 255), FScale(blend, 1, 255), LAMBDA b, l :
    LET d == IF b <= ONE \div 4
             THEN FMul(FMul(16 * b - Fix(12), b) + Fix(4), b)
             ELSE FSqrt(b)
        r == IF l <= HALF
             THEN b - FMul(FMul(ONE - 2 * l, b), ONE - b)
             ELSE b + FMul(2 * l - ONE, d - b)
    IN r * 255)

\* m holds the nine coefficients in hundredths, row-major
applyMatrix(r0, g0, b0, m) ==
  Bind3(r0, g0, b0, LAMBDA r, g, b :
    << (r * m[1] + g * m[2] + b * m[3]) \div 100,
       (r * m[4] + g * m[5] + b * m[6]) \div 100,
       (r * m[7] + g * m[8] + b * m[9]) \div 100 >>)

applyWB(r, g, b, temp, tint) ==
  Bind2((temp * ONE) \div 100, (tint * ONE) \div 100, LAMBDA t, tn :
  Bind3(ONE + (IF t > 0 THEN FScale(t, 1, 2) ELSE FScale(t, 1, 5)),
        ONE - FScale(tn, 1, 5),
        ONE + (IF t < 0 THEN FScale(-t, 1, 2) ELSE FScale(-t, 1, 5)),
        LAMBDA rGain, gGain, bGain :
  Bind(Max3(rGain, gGain, bGain), LAMBDA maxG :
  Bind(IF maxG > (12 * ONE) \div 10
       THEN Bind(FScale(maxG, 9, 10), LAMBDA den :
              << FDiv(rGain, den), FDiv(gGain, den), FDiv(bGain, den) >>)
       ELSE << rGain, gGain, bGain >>,
       LAMBDA gain : << FMul(r, gain[1]), FMul(g, gain[2]), FMul(b, gain[3]) >>))))

\* hslToRgb of the synthesizer: h in degrees (integer), s and l fixed-point
gradeHslToRgb(h, s, l) ==
  Bind(FMul(ONE - FAbs(2 * l - ONE), s), LAMBDA c :
  Bind2(FMul(c, ONE - FAbs(FRem((h * ONE) \div 60, 2 * ONE) - ONE)), l - (c \div 2),
        LAMBDA x, m :
  Bind(IF 0 <= h /\ h < 60 THEN <<c, x, 0>>
       ELSE IF 60 <= h /\ h < 120 THEN <<x, c, 0>>
       ELSE IF 120 <= h /\ h < 180 THEN <<0, c, x>>
       ELSE IF 180 <= h /\ h < 240 THEN <<0, x, c>>
       ELSE IF 240 <= h /\ h < 300 THEN <<x, 0, c>>
       ELSE IF 300 <= h /\ h < 360 THEN <<c, 0, x>>
       ELSE <<0, 0, 0>>,
       LAMBDA rgb : << (rgb[1] + m) * 255, (rgb[2] + m) * 255, (rgb[3] + m) * 255 >>)))

\* cur is a colour value, mask a number value
applyTint(cur, grade, mask) ==
  IF grade.s = 0 \/ mask <= ONE \div 1000 THEN cur
  ELSE Bind2(gradeHslToRgb(grade.h, (8 * ONE) \div 10, HALF), FScale(mask, grade.s, 100),
             LAMBDA t, strength :
         << FMul(cur[1], ONE - strength) + FMul(softLight(cur[1], t[1]), strength),
            FMul(cur[2], ONE - strength) + FMul(softLight(cur[2], t[2]), strength),
            FMul(cur[3], ONE - strength) + FMul(softLight(cur[3], t[3]), strength) >>)

applyGrading(r0, g0, b0, grading) ==
  Bind3(r0, g0, b0, LAMBDA r, g, b :
    IF grading.shadows.s = 0 /\ grading.midtones.s = 0 /\ grading.highlights.s = 0
    THEN <<r, g, b>>
    ELSE Bind(FScale(Luma601(r, g, b), 1, 255), LAMBDA luma :
         Bind2(<<r, g, b>>, FMax(0, ONE - luma * 2), LAMBDA o0, shadowMask :
         Bind2(applyTint(o0, grading.shadows, shadowMask),
               FMax(0, ONE - FAbs(luma - HALF) * 2), LAMBDA o1, midtoneMask :
         Bind2(applyTint(o1, grading.midtones, midtoneMask),
               FMax(0, (luma - HALF) * 2), LAMBDA o2, highlightMask :
           applyTint(o2, grading.highlights, highlightMask))))))

\* strength is the decimal sn/10
applyFilmCurve(val, sn) ==
  Bind(FMax(0, FScale(val, 1, 255)), LAMBDA u :
    (u + FScale(FMul(FMul(u, u), Fix(3) - 2 * u) - u, sn, 10)) * 255)

applyVibrance(r0, g0, b0, amount) ==
  Bind3(r0, g0, b0, LAMBDA r, g, b :
    IF amount = 0 THEN <<r, g, b>>
    ELSE Bind2(Max3(r, g, b), Min3(r, g, b), LAMBDA mx, mn :
           IF mx <= 0 THEN <<r, g, b>>
           ELSE Bind(ONE - FDiv(mn, mx), LAMBDA sat :
                Bind2(FScale(ONE - sat, amount, 100), Luma601(r, g, b),
                      LAMBDA factor, luma :
                  << luma + FMul(r - luma, ONE + factor),
                     luma + FMul(g - luma, ONE + factor),
                     luma + FMul(b - luma, ONE + factor) >>))))

\* c is a colour value
Max0(c) == << FMax(0, c[1]), FMax(0, c[2]), FMax(0, c[3]) >>

Curve3(c, sr, sg, sb) ==
  << applyFilmCurve(c[1], sr), applyFilmCurve(c[2], sg), applyFilmCurve(c[3], sb) >>

negS(val) ==
  Bind(FMax(0, FScale(val, 1, 255)), LAMBDA u : FMul(FMul(u, u), Fix(3) - 2 * u) * 255)

flatCurve(v) == (FScale(FScale(v, 1, 255), 8, 10) + (ONE \div 10)) * 255

\* a switch that takes the Provia case for every film, for comparison
ProviaSwitch(type, c) ==
  Bind(applyVibrance(c[1], c[2], c[3], 10), LAMBDA v : Curve3(v, 2, 2, 3))

\* step 2 of the loop body: the switch on the film type, for a colour value c;
\* a type that matches no case (FilmSimulation.None of App.tsx) leaves the
\* colour as it is
FilmSwitch(type, c) ==
  CASE type = "Provia" ->
         Bind(applyVibrance(c[1], c[2], c[3], 10), LAMBDA v : Curve3(v, 2, 2, 3))
    [] type = "Velvia" ->
         Bind(applyMatrix(c[1], c[2], c[3], <<115, -10, -5, -5, 115, -10, -5, -10, 115>>),
              LAMBDA m :
         Bind(applyVibrance(FMax(0, m[1]), FMax(0, m[2]), FMax(0, m[3]), 25), LAMBDA v :
           Curve3(v, 5, 5, 5)))
    [] type = "Astia" ->
         Bind(Curve3(c, 1, 1, 1), LAMBDA k :
         Bind(applyVibrance(k[1], k[2], k[3], 5), LAMBDA v :
           IF v[1] > v[2] /\ v[2] > v[3]
           THEN << FScale(v[1], 102, 100), FScale(v[2], 101, 100), v[3] >>
           ELSE v))
    [] type = "ClassicChrome" ->
         Bind(applyMatrix(c[1], c[2], c[3], <<95, 5, 0, 0, 95, 5, 0, 10, 90>>), LAMBDA m :
         Bind(applyVibrance(FMax(0, m[1]), FMax(0, m[2]), FMax(0, m[3]), -15), LAMBDA v :
           Curve3(v, 6, 6, 6)))
    [] type = "RealaAce" ->
         Bind(applyMatrix(c[1], c[2], c[3], <<105, -5, 0, 0, 105, -5, -5, 0, 105>>),
              LAMBDA m : Curve3(Max0(m), 3, 3, 3))
    [] type = "ClassicNeg" ->
         Bind(applyMatrix(negS(c[1]), negS(c[2]), negS(c[3]),
                          <<110, -10, 0, 0, 110, -10, 0, 10, 90>>),
              LAMBDA m : Max0(m))
    [] type = "NostalgicNeg" ->
         Bind(Curve3(c, 2, 2, 2), LAMBDA k :
         Bind((k[1] + k[2] + k[3]) \div 3, LAMBDA luma :
           IF luma > Fix(100)
           THEN Bind(FScale(luma - Fix(100), 10, 155), LAMBDA f :
                  << k[1] + f, k[2] + FScale(f, 1, 2), k[3] - FScale(f, 1, 2) >>)
           ELSE k))
    [] type = "Eterna" ->
         applyVibrance(flatCurve(c[1]), flatCurve(c[2]), flatCurve(c[3]), -20)
    [] type \in {"Acros", "AcrosYe", "AcrosR", "AcrosG"} ->
         Bind(CASE type = "Acros" -> <<299, 587, 114>>
                [] type = "AcrosYe" -> <<340, 560, 100>>
                [] type = "AcrosR" -> <<500, 400, 100>>
                [] type = "AcrosG" -> <<200, 700, 100>>,
              LAMBDA w :
         Bind(applyFilmCurve((c[1] * w[1] + c[2] * w[2] + c[3] * w[3]) \div 1000, 6),
              LAMBDA val : <<val, val, val>>))
    [] type = "Sepia" ->
         Bind(Luma601(c[1], c[2], c[3]), LAMBDA val :
           << FScale(val, 11, 10), val, FScale(val, 8, 10) >>)
    [] OTHER -> c

\* the loop body of generateFilmStyleLUT for grid corner (rIdx, gIdx, bIdx):
\* the three bytes it stores at data[index .. index + 2]
LutCorner(type, wb, grading, rIdx, gIdx, bIdx) ==
  Bind(applyWB((rIdx * 255 * ONE) \div (LUT_SIZE - 1),
               (gIdx * 255 * ONE) \div (LUT_SIZE - 1),
               (bIdx * 255 * ONE) \div (LUT_SIZE - 1), wb.temp, wb.tint), LAMBDA w :
  Bind(FilmSwitch(type, w), LAMBDA f :
  Bind(applyGrading(f[1], f[2], f[3], grading), LAMBDA c :
    << MathRound(clamp(c[1])), MathRound(clamp(c[2])), MathRound(clamp(c[3])) >>)))

\* where the loop stores corner (rIdx, gIdx, bIdx)
LutIndex(rIdx, gIdx, bIdx) == (rIdx + gIdx * LUT_SIZE + bIdx * LUT_SIZE * LUT_SIZE) * 3

\* generateFilmStyleLUT: the Uint8Array it returns, kept as the parameters
\* that determine every element (the array has 3 * 32^3 entries)
generateFilmStyleLUT(type, wb, grading) ==
  [type |-> type, wb |-> wb, grading |-> grading]

\* the three bytes of cell number `cell` of the array returned by
\* generateFilmStyleLUT: the loops visit every corner once and store its
\* bytes at LutIndex(corner) + 0, 1, 2
GeneratedCell(lut, cell) ==
  LutCorner(lut.type, lut.wb, lut.grading, cell % LUT_SIZE,
            (cell \div LUT_SIZE) % LUT_SIZE, cell \div (LUT_SIZE * LUT_SIZE))

\* element i of that array
GeneratedAt(lut, i) == GeneratedCell(lut, i \div 3)[(i % 3) + 1]

\* ---------------------------------------------------------------------
\* Pixel processor (applyLUT, applyTexture and their helpers)
\* ---------------------------------------------------------------------
overlayBlend(base0, blend0) ==
  Bind2(base0, blend0, LAMBDA base, blend :
    IF base = NaN \/ blend = NaN THEN NaN
    ELSE IF base < HALF THEN FMul(2 * base, blend)
    ELSE ONE - FMul(2 * (ONE - base), ONE - blend))

\* Rec.709 luma 0.2126 r + 0.7152 g + 0.0722 b
getLuma(r0, g0, b0) ==
  Bind3(r0, g0, b0, LAMBDA r, g, b :
    IF r = NaN \/ g = NaN \/ b = NaN THEN NaN
    ELSE (r \div 10000) * 2126 + (g \div 10000) * 7152 + (b \div 10000) * 722
         + (((r % 10000) * 2126 + (g % 10000) * 7152 + (b % 10000) * 722) \div 10000))

\* out = <<h in degrees, s, l>>
rgbToHsl(r0, g0, b0) ==
  Bind3(FScale(r0, 1, 255), FScale(g0, 1, 255), FScale(b0, 1, 255), LAMBDA r, g, b :
  Bind2(Max3(r, g, b), Min3(r, g, b), LAMBDA max, min :
    IF max = NaN \/ min = NaN THEN <<NaN, NaN, NaN>>
    ELSE Bind2((max + min) \div 2, max - min, LAMBDA l, d :
           IF max = min THEN <<0, 0, l>>
           ELSE LET s == IF l > HALF THEN FDiv(d, 2 * ONE - max - min)
                         ELSE FDiv(d, max + min)
                    h6 == IF max = r THEN FDiv(g - b, d) + (IF g < b THEN Fix(6) ELSE 0)
                          ELSE IF max = g THEN FDiv(b - r, d) + Fix(2)
                          ELSE FDiv(r - g, d) + Fix(4)
                IN << FScale(h6, 1, 6) * 360, s, l >>)))

\* p, q are number values
hue2rgb(p, q, t0) ==
  Bind(t0, LAMBDA tIn :
  Bind(IF tIn < 0 THEN tIn + ONE ELSE IF tIn > ONE THEN tIn - ONE ELSE tIn, LAMBDA t :
    IF 6 * t < ONE THEN p + FMul(q - p, 6 * t)
    ELSE IF 2 * t < ONE THEN q
    ELSE IF 3 * t < 2 * ONE THEN p + FMul(q - p, (FScale(2 * ONE, 1, 3) - t) * 6)
    ELSE p))

hslToRgb(h0, s0, l0) ==
  Bind3(h0, s0, l0, LAMBDA h, s, l :
    IF h = NaN \/ s = NaN \/ l = NaN THEN <<NaN, NaN, NaN>>
    ELSE IF s = 0 THEN << l * 255, l * 255, l * 255 >>
    ELSE Bind(IF l < HALF THEN FMul(l, ONE + s) ELSE l + s - FMul(l, s), LAMBDA q :
         Bind2(2 * l - q, FScale(h, 1, 360), LAMBDA p, hn :
           << hue2rgb(p, q, hn + FScale(ONE, 1, 3)) * 255,
              hue2rgb(p, q, hn) * 255,
              hue2rgb(p, q, hn - FScale(ONE, 1, 3)) * 255 >>)))

\* hue and target in degrees (fixed-point), range 45
getHueWeight(hue, target, range) ==
  Bind(FAbs(hue - target), LAMBDA d0 :
  Bind(IF d0 > Fix(180) THEN Fix(360) - d0 ELSE d0, LAMBDA diff :
    IF diff >= range THEN 0
    ELSE Bind(ONE - FDiv(diff, range), LAMBDA v : FMul(FMul(v, v), Fix(3) - 2 * v))))

HslCenters == << <<"red", 0>>, <<"yellow", 60>>, <<"green", 120>>,
                 <<"cyan", 180>>, <<"blue", 240>>, <<"magenta", 300>> >>

\* processChannel for the k-th band and the bands after it, accumulating
\* d = <<dH, dS, dL>>; h and d are values
RECURSIVE processChannels(_, _, _, _)
processChannels(h, hslAdj, k, d) ==
  IF k > Len(HslCenters) THEN d
  ELSE Bind2(hslAdj[HslCenters[k][1]], getHueWeight(h, Fix(HslCenters[k][2]), Fix(45)),
             LAMBDA channel, w :
       Bind(IF channel.h = 0 /\ channel.s = 0 /\ channel.l = 0 THEN d
            ELSE IF w > 0
                 THEN << d[1] + channel.h * w,
                         d[2] + FScale(w, channel.s, 100),
                         d[3] + FScale(w, channel.l, 100) >>
                 ELSE d,
            LAMBDA d1 : processChannels(h, hslAdj, k + 1, d1)))

applyHSL(r, g, b, hslAdj) ==
  Bind(rgbToHsl(r, g, b), LAMBDA hsl :
    IF hsl[1] = NaN THEN <<NaN, NaN, NaN>>
    ELSE Bind(processChannels(hsl[1], hslAdj, 1, <<0, 0, 0>>), LAMBDA d :
           IF FAbs(d[1]) > ONE \div 100 \/ FAbs(d[2]) > ONE \div 1000
              \/ FAbs(d[3]) > ONE \div 1000
           THEN LET h == FRem(hsl[1] + d[1] + Fix(360), Fix(360))
                    s == FMax(0, FMin(ONE, FMul(hsl[2], ONE + d[2])))
                    l0 == IF d[3] > 0
                          THEN hsl[3] + FScale(FMul(ONE - hsl[3], d[3]), 1, 2)
                          ELSE hsl[3] + FScale(FMul(hsl[3], d[3]), 1, 2)
                    l == FMax(0, FMin(ONE, l0))
                IN hslToRgb(h, s, l)
           ELSE <<r, g, b>>))

\* the interpolation taken from b towards a, for comparison
lerpFromEnd(a0, b0, t) == Bind2(a0, b0, LAMBDA a, b : FAdd(b, FMul(t, FSub(a, b))))

\* a + t * (b - a)
lerp(a0, b0, t) == Bind2(a0, b0, LAMBDA a, b : FAdd(a, FMul(t, FSub(b, a))))

\* 2^(k/33) for k = 0 .. 32, in units of 1/ONE
Pow2Frac == << 4096, 4183, 4272, 4362, 4455, 4550, 4646, 4745, 4845, 4948, 5053,
               5161, 5270, 5382, 5496, 5613, 5732, 5854, 5978, 6105, 6235, 6367,
               6502, 6640, 6781, 6925, 7072, 7222, 7375, 7532, 7692, 7855, 8022 >>

\* Math.pow(2, e / 33) for an integer e
Pow2Over33(e) ==
  IF e \div 33 >= 0 THEN Pow2Frac[(e % 33) + 1] * (2^(e \div 33))
  ELSE Pow2Frac[(e % 33) + 1] \div (2^(-(e \div 33)))

\* (259 * (c + 255)) / (255 * (259 - c))
ContrastFactor(c) == FDiv(259 * (c + 255), 255 * (259 - c))

\* a value left as it is where the code clamps it, for comparison
Unclamped(v) == v

\* Math.max(0, Math.min(255, v))
Clamp255(v) == FMax(0, FMin(Fix(255), v))

\* a colour value left without the exposure gain, for comparison
NoExposure(c, adj) == c

\* the four steps of applyLocalAdj, each on a colour value c
LocalExposure(c, adj) ==
  IF adj.exposure # 0
  THEN Bind(Pow2Over33(adj.exposure), LAMBDA factor :
         << FMul(c[1], factor), FMul(c[2], factor), FMul(c[3], factor) >>)
  ELSE c

LocalContrast(c, adj) ==
  IF adj.contrast # 0
  THEN Bind(ContrastFactor(adj.contrast), LAMBDA factor :
         << FAdd(FMul(factor, FSub(c[1], Fix(128))), Fix(128)),
            FAdd(FMul(factor, FSub(c[2], Fix(128))), Fix(128)),
            FAdd(FMul(factor, FSub(c[3], Fix(128))), Fix(128)) >>)
  ELSE c

LocalSaturation(c, adj) ==
  IF adj.saturation # 0
  THEN Bind2(Luma601(c[1], c[2], c[3]), ONE + ((adj.saturation * ONE) \div 100),
             LAMBDA luma, sFactor :
         << FAdd(luma, FMul(FSub(c[1], luma), sFactor)),
            FAdd(luma, FMul(FSub(c[2], luma), sFactor)),
            FAdd(luma, FMul(FSub(c[3], luma), sFactor)) >>)
  ELSE c

LocalTemperature(c, adj) ==
  IF adj.temperature # 0 \/ adj.tint # 0
  THEN << FScale(c[1], 100 + adj.temperature, 100),
          FScale(c[2], 100 - adj.tint, 100),
          FScale(c[3], 100 - adj.temperature, 100) >>
  ELSE c

applyLocalAdj(r, g, b, adj) ==
  Bind(<<r, g, b>>, LAMBDA c0 :
  Bind(LocalExposure(c0, adj), LAMBDA e :
  Bind(LocalContrast(e, adj), LAMBDA c :
  Bind(LocalSaturation(c, adj), LAMBDA s :
  Bind(LocalTemperature(s, adj), LAMBDA t :
    << Clamp255(t[1]), Clamp255(t[2]), Clamp255(t[3]) >>)))))

\* a generator carried over from the previous render, for comparison
keptRandom == random

\* `const random = mulberry32(1337)`: the generator a pass creates for itself
newRandom == mulberry32(SEED)

\* the state of a generator n calls after state a: every call adds Increment
Advance(a, n) ==
  << (a[1] + n * Increment[1] + ((a[2] + n * Increment[2]) \div W16)) % W16,
     (a[2] + n * Increment[2]) % W16 >>

\* the result of call number n + 1 of a generator created in state a
RandomAt(a, n) == RandomValue(RandomStep(Advance(a, n)).word)

\* data[idx], data[idx + 1], data[idx + 2] for idx a multiple of 3; an index
\* outside the array reads undefined, which turns every later arithmetic
\* result into NaN
LutTriple(lut, idx) ==
  IF lut.kind = "generated"
  THEN IF idx >= 0 /\ idx < 3 * LUT_SIZE * LUT_SIZE * LUT_SIZE
       THEN Bind(GeneratedCell(lut.data, idx \div 3), LAMBDA cell :
              << Fix(cell[1]), Fix(cell[2]), Fix(cell[3]) >>)
       ELSE <<NaN, NaN, NaN>>
  ELSE ForEach(3, LAMBDA k :
         IF idx >= 0 /\ idx + k <= Len(lut.data) THEN lut.data[idx + k] ELSE NaN)

\* a read that takes the blue index for the red one, for comparison
getVBlueFirst(lut, ri, gi, bi) ==
  LutTriple(lut, (bi + gi * lut.size + ri * lut.size * lut.size) * 3)

\* idxCorrect of getV
GetVIndex(lut, ri, gi, bi) == (ri + gi * lut.size + bi * lut.size * lut.size) * 3

getV(lut, ri, gi, bi) == LutTriple(lut, GetVIndex(lut, ri, gi, bi))

lerpColor(c1, c2, t) ==
  Bind2(c1, c2, LAMBDA x, y : << lerp(x[1], y[1], t), lerp(x[2], y[2], t), lerp(x[3], y[3], t) >>)

\* an upper corner index that is not held at lutMax, for comparison
UnboundedCorner(i0, lutMax) == i0 + 1

\* Math.min(lutMax, i0 + 1)
NextCorner(i0, lutMax) == IF i0 + 1 < lutMax THEN i0 + 1 ELSE lutMax

\* the grid cell of step 3 for the colour value c: pos is rPos, gPos, bPos,
\* lo is r0, g0, b0 and hi is r1, g1, b1
LutCell(lut, c) ==
  Bind(lut.size - 1, LAMBDA lutMax :
  Bind(<< FScale(c[1], lutMax, 255), FScale(c[2], lutMax, 255),
          FScale(c[3], lutMax, 255) >>, LAMBDA pos :
  Bind(<< Floor(pos[1]), Floor(pos[2]), Floor(pos[3]) >>, LAMBDA lo :
    [ pos |-> pos, lo |-> lo,
      hi |-> << NextCorner(lo[1], lutMax), NextCorner(lo[2], lutMax),
                NextCorner(lo[3], lutMax) >> ])))

\* corner number n of a cell, in the order c000, c100, c010, c110, c001, c101,
\* c011, c111 of the eight getV calls
CellCorner(cell, n) ==
  << IF (n - 1) % 2 = 0 THEN cell.lo[1] ELSE cell.hi[1],
     IF ((n - 1) \div 2) % 2 = 0 THEN cell.lo[2] ELSE cell.hi[2],
     IF (n - 1) \div 4 = 0 THEN cell.lo[3] ELSE cell.hi[3] >>

\* step 3 of the pixel loop: trilinear sample of the LUT at the colour value c
LutLookup(lut, c) ==
  IF c[1] = NaN \/ c[2] = NaN \/ c[3] = NaN THEN <<NaN, NaN, NaN>>
  ELSE
  Bind(LutCell(lut, c), LAMBDA cell :
  Bind(ForEach(8, LAMBDA n :
         Bind(CellCorner(cell, n), LAMBDA k : getV(lut, k[1], k[2], k[3]))), LAMBDA v :
    LET dr == cell.pos[1] - Fix(cell.lo[1])
        dg == cell.pos[2] - Fix(cell.lo[2])
        db == cell.pos[3] - Fix(cell.lo[3])
        c00 == lerpColor(v[1], v[2], dr)
        c10 == lerpColor(v[3], v[4], dr)
        c01 == lerpColor(v[5], v[6], dr)
        c11 == lerpColor(v[7], v[8], dr)
        c0 == lerpColor(c00, c10, dg)
        c1 == lerpColor(c01, c11, dg)
    IN lerpColor(c0, c1, db)))

\* step 1 of the pixel loop: global HSL, on a colour value c
GlobalHSL(c, adj) ==
  IF \E n \in DOMAIN adj.hsl : adj.hsl[n].h # 0 \/ adj.hsl[n].s # 0 \/ adj.hsl[n].l # 0
  THEN applyHSL(c[1], c[2], c[3], adj.hsl)
  ELSE c

\* step 2, first half: brightness, contrast and the clamp, on a colour value c
BrightnessContrast(c, adj) ==
  Bind(ContrastFactor(adj.contrast), LAMBDA contrastFactor :
  Bind(IF adj.brightness # 0
       THEN << FAdd(c[1], Fix(adj.brightness)), FAdd(c[2], Fix(adj.brightness)),
               FAdd(c[3], Fix(adj.brightness)) >>
       ELSE c,
       LAMBDA b :
  Bind(IF contrastFactor # ONE
       THEN << FAdd(FMul(contrastFactor, FSub(b[1], Fix(128))), Fix(128)),
               FAdd(FMul(contrastFactor, FSub(b[2], Fix(128))), Fix(128)),
               FAdd(FMul(contrastFactor, FSub(b[3], Fix(128))), Fix(128)) >>
       ELSE b,
       LAMBDA k : << Clamp255(k[1]), Clamp255(k[2]), Clamp255(k[3]) >>)))

\* step 2, second half: saturation, shadows, highlights and the clamp
SaturationShadowsHighlights(c, adj) ==
  Bind3(ONE + ((adj.saturation * ONE) \div 100), adj.shadows * HALF, adj.highlights * HALF,
        LAMBDA saturationFactor, shadowLift, highlightDrop :
  Bind(Luma601(c[1], c[2], c[3]), LAMBDA luma :
  Bind(IF saturationFactor # ONE
       THEN << FAdd(luma, FMul(FSub(c[1], luma), saturationFactor)),
               FAdd(luma, FMul(FSub(c[2], luma), saturationFactor)),
               FAdd(luma, FMul(FSub(c[3], luma), saturationFactor)) >>
       ELSE c,
       LAMBDA e :
  Bind2(FMul(FMax(0, FSub(ONE, FScale(luma, 1, 255))), shadowLift),
        FMul(FMax(0, FScale(FSub(luma, Fix(128)), 1, 128)), highlightDrop),
        LAMBDA lift, drop :
  Bind(IF shadowLift # 0
       THEN << FAdd(e[1], lift), FAdd(e[2], lift), FAdd(e[3], lift) >>
       ELSE e,
       LAMBDA f :
  Bind(IF highlightDrop # 0
       THEN << FAdd(f[1], drop), FAdd(f[2], drop), FAdd(f[3], drop) >>
       ELSE f,
       LAMBDA g : << Clamp255(g[1]), Clamp255(g[2]), Clamp255(g[3]) >>))))))

\* steps 1 and 2 of the pixel loop for the source bytes r0, g0, b0
GlobalTone(r0, g0, b0, adj) ==
  Bind(<< Fix(r0), Fix(g0), Fix(b0) >>, LAMBDA c :
  Bind(GlobalHSL(c, adj), LAMBDA a :
  Bind(BrightnessContrast(a, adj), LAMBDA b : SaturationShadowsHighlights(b, adj))))

\* the visible masks taken from the end of the list to its start
ReversedMasks(ms) ==
  Bind(SelectSeq(ms, LAMBDA m : m.visible /\ m.opacity > 0), LAMBDA act :
    ForEach(Len(act), LAMBDA i : act[Len(act) + 1 - i]))

\* masks.filter(m => m.visible && m.data && m.opacity > 0)
ActiveMasks(ms) == SelectSeq(ms, LAMBDA m : m.visible /\ m.opacity > 0)

\* a blend weighted by the opacity alone, whatever the alpha at the pixel
OpacityOnlyBlend(c, mask, pixelIndex) ==
  Bind(applyLocalAdj(c[1], c[2], c[3], mask.adjustments), LAMBDA m :
    << lerp(c[1], m[1], mask.opacity), lerp(c[2], m[2], mask.opacity),
       lerp(c[3], m[3], mask.opacity) >>)

\* one iteration of the loop over the active masks, on a colour value c
MaskBlend(c, mask, pixelIndex) ==
  IF pixelIndex < Len(mask.data) /\ mask.data[pixelIndex + 1] > 0
  THEN Bind2(FMul((mask.data[pixelIndex + 1] * ONE) \div 255, mask.opacity),
             applyLocalAdj(c[1], c[2], c[3], mask.adjustments), LAMBDA weight, m :
         << lerp(c[1], m[1], weight), lerp(c[2], m[2], weight), lerp(c[3], m[3], weight) >>)
  ELSE c

\* step 4 of the pixel loop: the loop over the active masks, from mask k on
RECURSIVE MaskStage(_, _, _, _)
MaskStage(c, activeMasks, k, pixelIndex) ==
  IF k > Len(activeMasks) THEN c
  ELSE Bind(MaskBlend(c, activeMasks[k], pixelIndex), LAMBDA c1 :
         MaskStage(c1, activeMasks, k + 1, pixelIndex))

\* step 5 of the pixel loop: vignette, dither and the final clamp
VignetteDither(c, adj, width, height, x, y, noise) ==
  Bind3((adj.vignette * ONE) \div 100, Fix(width) \div 2, Fix(height) \div 2,
        LAMBDA vignetteStr, centerX, centerY :
  Bind(IF vignetteStr > 0
       THEN Bind3(FSqrt(FMul(centerX, centerX) + FMul(centerY, centerY)),
                  Fix(x) - centerX, Fix(y) - centerY, LAMBDA maxDist, dx, dy :
            Bind(FDiv(FSqrt(FMul(dx, dx) + FMul(dy, dy)), maxDist), LAMBDA vFactor :
            Bind(IF vFactor = NaN THEN NaN
                 ELSE FMul(FMul(FMul(vFactor, vFactor), vFactor), vignetteStr) * 255,
                 LAMBDA darkening :
              << FSub(c[1], darkening), FSub(c[2], darkening), FSub(c[3], darkening) >>)))
       ELSE c,
       LAMBDA v :
  Bind(noise - HALF, LAMBDA dither :
    << Clamp255(FAdd(v[1], dither)), Clamp255(FAdd(v[2], dither)),
       Clamp255(FAdd(v[3], dither)) >>)))

\* a pixel that takes the LUT sample whatever the intensity, for comparison
LutOnly(tone, l, inten) == l

\* `if (intensity !== 1) { lr = lerp(r, lr, intensity); ... }`: tone is the
\* colour before the lookup, l the LUT sample
IntensityMix(tone, l, inten) ==
  IF inten # ONE
  THEN << lerp(tone[1], l[1], inten), lerp(tone[2], l[2], inten),
          lerp(tone[3], l[3], inten) >>
  ELSE l

\* the colour the pixel loop computes for pixel (x, y): lr, lg, lb after the
\* final clamp; noise is the result of the pixel's call of random()
PixelColour(pixelData, lut, adj, inten, activeMasks, x, y, noise) ==
  Bind((y * pixelData.width + x) * 4, LAMBDA i :
  Bind(GlobalTone(pixelData.data[i + 1], pixelData.data[i + 2], pixelData.data[i + 3], adj),
       LAMBDA tone :
  Bind(LutLookup(lut, tone), LAMBDA l :
  Bind(IntensityMix(tone, l, inten), LAMBDA mix :
  Bind(MaskStage(mix, activeMasks, 1, y * pixelData.width + x), LAMBDA loc :
    VignetteDither(loc, adj, pixelData.width, pixelData.height, x, y, noise))))))

\* the pixel loops of applyLUT: the colours lr, lg, lb of the pixels in loop
\* order; pixel number p (from 1) is at x = (p - 1) % width,
\* y = (p - 1) \div width and makes call number p of the loop's generator
MainLoop(pixelData, lut, adj, inten, activeMasks) ==
  ForEach(pixelData.width * pixelData.height, LAMBDA p :
    PixelColour(pixelData, lut, adj, inten, activeMasks,
                (p - 1) % pixelData.width, (p - 1) \div pixelData.width,
                RandomAt(newRandom, p - 1)))

\* a store that writes the colours and an opaque alpha, for comparison
StoreOpaque(data, colours) ==
  ForEach(Len(data), LAMBDA j :
    IF j % 4 = 0 THEN 255
    ELSE ToUint8Clamped(colours[((j - 1) \div 4) + 1][((j - 1) % 4) + 1]))

\* the buffer after `data[idx] = r; data[idx + 1] = g; data[idx + 2] = b` for
\* every pixel, colours being the values stored; the alpha bytes are those of data
StoreColours(data, colours) ==
  ForEach(Len(data), LAMBDA j :
    IF j % 4 = 0 THEN data[j]
    ELSE ToUint8Clamped(colours[((j - 1) \div 4) + 1][((j - 1) % 4) + 1]))

\* the array of 256 counters after `hist[v | 0]++` for channel k of every colour
Histogram(colours, k) ==
  Bind(ForEach(Len(colours), LAMBDA p : ToInt32(colours[p][k])), LAMBDA bin :
    [v \in 0..255 |-> Cardinality({ p \in 1..Len(colours) : bin[p] = v })])

\* a sharpened value written back without its clamp, for comparison
KeepValue(v) == v

\* Math.min(255, Math.max(0, v)) of the sharpen branch
SharpenClamp(v) == FMin(Fix(255), FMax(0, v))

\* Smart sharpen of pixel (x, y): the colour value cur after the sharpen branch;
\* src is the snapshot of the buffer taken before the loop
Sharpen(cur, src, width, height, x, y, amount) ==
  IF x > 0 /\ x < width - 1 /\ y > 0 /\ y < height - 1
  THEN LET L(j) == getLuma(Fix(src[j + 1]), Fix(src[j + 2]), Fix(src[j + 3]))
           idx == (y * width + x) * 4
           iU == ((y - 1) * width + x) * 4
           iD == ((y + 1) * width + x) * 4
           iL == (y * width + (x - 1)) * 4
           iR == (y * width + (x + 1)) * 4
       IN Bind3(FScale(Fix(amount), 3, 200), L(idx),
                FScale(L(iU) + L(iD) + L(iL) + L(iR), 1, 4),
                LAMBDA sharpStrength, lumaC, lumaAvg :
          Bind(lumaC - lumaAvg, LAMBDA detail :
            IF FAbs(detail) > Fix(6)
            THEN Bind(IF lumaC < Fix(40) THEN FMax(0, FScale(lumaC, 1, 40)) ELSE ONE,
                      LAMBDA protection :
                 Bind(FMul(FMul(detail, sharpStrength), protection), LAMBDA amt :
                   << SharpenClamp(cur[1] + amt), SharpenClamp(cur[2] + amt),
                      SharpenClamp(cur[3] + amt) >>))
            ELSE cur))
  ELSE cur

\* Film grain of a colour value c with the generator's result noise
Grain(c, grainAmount, noise) ==
  Bind(FScale(getLuma(c[1], c[2], c[3]), 1, 255), LAMBDA luma :
  Bind(FMax(ONE \div 5, ONE - FMul(luma, luma)), LAMBDA filmGrainCurve :
  Bind(FScale(FMul(grainAmount, filmGrainCurve), 4, 10), LAMBDA strength :
  Bind(HALF + FMul(noise - HALF, strength) * 2, LAMBDA noiseVal :
    << overlayBlend(FScale(c[1], 1, 255), noiseVal) * 255,
       overlayBlend(FScale(c[2], 1, 255), noiseVal) * 255,
       overlayBlend(FScale(c[3], 1, 255), noiseVal) * 255 >>))))

\* `let noise = random()` in the iteration of pixel number p (from 1) of a
\* width-wide image: the result of call number p of the loop's generator,
\* whatever the grainSize
GrainNoise(width, adj, p) == RandomAt(newRandom, p - 1)

\* one iteration of the pixel loops of applyTexture: the r, g, b stored for
\* pixel number p (from 1), which makes call number p of the loop's generator
TexturePixel(width, height, adj, data, src, p) ==
  Bind(<< Fix(data[(p - 1) * 4 + 1]), Fix(data[(p - 1) * 4 + 2]),
          Fix(data[(p - 1) * 4 + 3]) >>, LAMBDA cur :
  Bind(IF adj.sharpening > 0
       THEN Sharpen(cur, src, width, height, (p - 1) % width, (p - 1) \div width,
                    adj.sharpening)
       ELSE cur,
       LAMBDA sh :
    IF adj.grainAmount > 0
    THEN Grain(sh, (adj.grainAmount * ONE) \div 100, GrainNoise(width, adj, p))
    ELSE sh))

\* a sharpen branch that reads the buffer being written, for comparison
LiveBuffer(snapshot, data) == data

\* the read source of the sharpen branch: `src = new Uint8ClampedArray(data)`
\* is taken before the loops, and the branch reads src, never data
SharpenSource(snapshot, data) == snapshot

\* the buffer after `data[idx] = r; data[idx + 1] = g; data[idx + 2] = b` of
\* pixel number p (from 1)
StorePixel(data, p, c) ==
  [data EXCEPT ![(p - 1) * 4 + 1] = ToUint8Clamped(c[1]),
               ![(p - 1) * 4 + 2] = ToUint8Clamped(c[2]),
               ![(p - 1) * 4 + 3] = ToUint8Clamped(c[3])]

\* the pixel loops of applyTexture from pixel number p on: data is the buffer
\* as the iterations before p left it, src the snapshot, tex the colours stored
\* so far
RECURSIVE TextureLoop(_, _, _, _, _, _, _)
TextureLoop(width, height, adj, data, src, p, tex) ==
  IF p > width * height
  THEN [data |-> data, tex |-> tex]
  ELSE Bind(TexturePixel(width, height, adj, data, SharpenSource(src, data), p),
            LAMBDA c :
         TextureLoop(width, height, adj, StorePixel(data, p, c), src, p + 1,
                     Append(tex, c)))

\* applyTexture(imageData, adjustments): ran tells whether it got past the
\* early return, data is the buffer it leaves in imageData.data, tex lists
\* the r, g, b it stored, random is the state its generator is left in
applyTexture(imageData, adj) ==
  IF ~(adj.grainAmount > 0) /\ ~(adj.sharpening > 0)
  THEN [ran |-> FALSE, data |-> imageData.data, tex |-> <<>>, noise |-> <<>>,
        random |-> newRandom]
  ELSE Bind(TextureLoop(imageData.width, imageData.height, adj, imageData.data,
                        imageData.data, 1, <<>>),
            LAMBDA loop :
         [ ran |-> TRUE,
           data |-> loop.data,
           tex |-> loop.tex,
           noise |-> IF adj.grainAmount > 0
                     THEN ForEach(imageData.width * imageData.height, LAMBDA p :
                            GrainNoise(imageData.width, adj, p))
                     ELSE <<>>,
           random |-> IF adj.grainAmount > 0
                      THEN Advance(newRandom, imageData.width * imageData.height)
                      ELSE newRandom ])

\* an output that is the source buffer itself and no copy, for comparison
SourceAsOutput(data) == [ buffer |-> "pixelData", data |-> data ]

\* new Uint8ClampedArray(data): a buffer of its own holding a copy of data
AllocateOutput(data) == [ buffer |-> "output", data |-> data ]

\* applyLUT(pixelData, lutContainer, adjustments, intensity, masks):
\* imageData and histogram are what it returns; buffer names the buffer its
\* stores went to and inputs is what its arguments hold on return; main and
\* tex list the colours stored by the main pass and by the texture pass;
\* random is the state in which the generator created last is left
applyLUT(pixelData, lutContainer, adj, inten, ms) ==
  Bind(MainLoop(pixelData, lutContainer, adj, inten, ActiveMasks(ms)), LAMBDA main :
  Bind(AllocateOutput(pixelData.data), LAMBDA outData :
  Bind([ width |-> pixelData.width, height |-> pixelData.height,
         data |-> StoreColours(outData.data, main) ], LAMBDA output :
  Bind(applyTexture(output, adj), LAMBDA tx :
    [ imageData |-> [output EXCEPT !.data = tx.data],
      buffer |-> outData.buffer,
      inputs |-> [ pixelData |-> IF outData.buffer = "pixelData" THEN tx.data
                                 ELSE pixelData.data,
                   lut |-> lutContainer, adjustments |-> adj, masks |-> ms ],
      histogram |-> [r |-> Histogram(main, 1), g |-> Histogram(main, 2),
                     b |-> Histogram(main, 3)],
      random |-> IF tx.ran THEN tx.random
                 ELSE Advance(newRandom, pixelData.width * pixelData.height),
      main |-> main,
      tex |-> tx.tex,
      noise |-> tx.noise ]))))

\* ---------------------------------------------------------------------
\* Host: defaults (App.tsx)
\* ---------------------------------------------------------------------
defaultHSLBand == [h |-> 0, s |-> 0, l |-> 0]

defaultGradingBand == [h |-> 0, s |-> 0]

createDefaultAdjustments ==
  [ brightness |-> 0, contrast |-> 0, saturation |-> 0, highlights |-> 0, shadows |-> 0,
    grainAmount |-> 0, grainSize |-> 2, vignette |-> 0, halation |-> 0, sharpening |-> 0,
    whiteBalance |-> [temp |-> 0, tint |-> 0],
    grading |-> [shadows |-> defaultGradingBand, midtones |-> defaultGradingBand,
                 highlights |-> defaultGradingBand],
    hsl |-> [red |-> defaultHSLBand, yellow |-> defaultHSLBand, green |-> defaultHSLBand,
             cyan |-> defaultHSLBand, blue |-> defaultHSLBand, magenta |-> defaultHSLBand] ]

createDefaultLocalAdjustments ==
  [exposure |-> 0, contrast |-> 0, saturation |-> 0, temperature |-> 0, tint |-> 0,
   sharpness |-> 0]

\* the LUTContainer the processor reads (lutContainer.size, lutContainer.data)
\* around the array the synthesizer returns
\* ---------------------------------------------------------------------
\* The mask canvas (maskingService.ts and the mask handlers of App.tsx).  Of
\* a canvas only the alpha byte of each pixel is kept: nothing reads the rest.
\* ---------------------------------------------------------------------
\* the initial BrushSettings of App; hardness has no control and stays 50
defaultBrushSettings == [size |-> 50, hardness |-> 50, opacity |-> 50, isEraser |-> FALSE]

\* document.createElement('canvas') sized to the image: transparent
createCanvas(width, height) ==
  [ width |-> width, height |-> height, alpha |-> ForEach(width * height, LAMBDA p : 0) ]

\* ctx.clearRect over the whole canvas
clearRect(canvas) == [canvas EXCEPT !.alpha = ForEach(Len(@), LAMBDA p : 0)]

\* masks.find(m => m.id === id)
FindMask(ms, id) ==
  ms[CHOOSE i \in DOMAIN ms : ms[i].id = id /\ \A j \in 1..(i - 1) : ms[j].id # id]

\* the re-hydration of handleSelectMask: clearRect over the image's area, then
\* putImageData of an image-sized ImageData whose alpha bytes are the first
\* data.length of the mask's bytes
putMask(canvas, image, data) ==
  [canvas EXCEPT !.alpha =
     ForEach(Len(@), LAMBDA p :
       LET x == (p - 1) % canvas.width
           y == (p - 1) \div canvas.width
           i == y * image.width + x + 1
       IN IF x < image.width /\ y < image.height
          THEN (IF i <= Len(data) THEN data[i] ELSE 0)
          ELSE canvas.alpha[p])]

\* canvasToMaskData: the alpha byte of every pixel of the canvas
canvasToMaskData(canvas) == ForEach(canvas.width * canvas.height, LAMBDA i : canvas.alpha[i])

\* ctx.shadowBlur of drawStroke
ShadowBlur(settings) == (settings.size * (100 - settings.hardness) * ONE) \div 200

\* the alpha byte of ctx.strokeStyle: rgba(0,0,0,1) for the eraser,
\* rgba(255,255,255,opacity/100) otherwise
StrokeAlpha(settings) ==
  IF settings.isEraser THEN 255 ELSE (2 * 255 * settings.opacity + 100) \div 200

\* a stroke style whose alpha is the flow for the eraser too, for comparison
FlowAlpha(settings) == (2 * 255 * settings.opacity + 100) \div 200

\* ctx.globalCompositeOperation applied to one pixel: a source of alpha a
\* composited on the destination alpha d, 'destination-out' for the eraser
\* and 'source-over' otherwise
Composite(settings, d, a) ==
  IF settings.isEraser
  THEN (2 * d * (255 - a) + 255) \div 510
  ELSE a + (2 * d * (255 - a) + 255) \div 510

\* the parts in a hundred of the stroke's alpha that its blurred shadow has
\* at a pixel the stroke covers: about half at the rim, all on the axis
ShadowShares == {50, 100}

\* ctx.stroke() at a pixel the stroke covers: when shadowBlur is not 0 the
\* shadow, of the opaque shadowColor, is composited first, then the stroke
StrokePixel(settings, d, share) ==
  Bind(StrokeAlpha(settings), LAMBDA a :
  Bind(IF ShadowBlur(settings) > 0
       THEN Composite(settings, d, (2 * a * share + 100) \div 200)
       ELSE d, LAMBDA shadowed :
    Composite(settings, shadowed, a)))

\* drawStroke(ctx, x, y, lastX, lastY, settings) on the canvas: covered is
\* the set of pixels the line covers, share the shadow share at them
drawStroke(canvas, covered, share, settings) ==
  [canvas EXCEPT !.alpha =
     ForEach(Len(@), LAMBDA p :
       IF p \in covered THEN StrokePixel(settings, canvas.alpha[p], share)
       ELSE canvas.alpha[p])]

GeneratedContainer(type, wb, grading) ==
  [size |-> LUT_SIZE, kind |-> "generated", data |-> generateFilmStyleLUT(type, wb, grading)]

\* ---------------------------------------------------------------------
\* Inputs of the render checks
\* ---------------------------------------------------------------------
\* largest image side
MaxSide == 3

\* RGBA of the pixels the test images are made of
Palette ==
  << <<100, 100, 100, 255>>, <<200, 30, 40, 128>>, <<10, 200, 90, 0>>,
     <<20, 40, 250, 255>>, <<128, 128, 128, 7>>, <<255, 0, 10, 255>>,
     <<200, 200, 10, 255>>, <<0, 0, 0, 255>>, <<255, 255, 255, 255>> >>

\* image of w x h pixels: "mixed" cycles through the palette, "flat" is
\* uniformly the palette's first colour
TestImage(w, h, kind) ==
  [ width |-> w, height |-> h,
    data |-> ForEach(4 * w * h, LAMBDA j :
               IF kind = "mixed"
               THEN Palette[(((j - 1) \div 4) % Len(Palette)) + 1][((j - 1) % 4) + 1]
               ELSE Palette[1][((j - 1) % 4) + 1]) ]

Images ==
  { TestImage(1, 1, "mixed"), TestImage(2, MaxSide, "mixed"),
    TestImage(MaxSide, MaxSide, "mixed"), TestImage(MaxSide, MaxSide, "flat") }

Intensities == {0, HALF, ONE}

\* Adjustments values inside the documented ranges
ToneAdjustments ==
  [createDefaultAdjustments EXCEPT
     !.brightness = 30, !.contrast = 50, !.saturation = 40, !.highlights = -60,
     !.shadows = 80, !.vignette = 70,
     !.hsl = [@ EXCEPT !.red = [h |-> 30, s |-> 100, l |-> -50],
                       !.green = [h |-> -30, s |-> -100, l |-> 100],
                       !.blue = [h |-> 10, s |-> 50, l |-> 20]]]

TextureAdjustments ==
  [createDefaultAdjustments EXCEPT !.sharpening = 100, !.grainAmount = 80]

MaxHSLBand == [h |-> 30, s |-> 100, l |-> 100]

MinHSLBand == [h |-> -30, s |-> -100, l |-> -100]

MaxAdjustments ==
  [createDefaultAdjustments EXCEPT
     !.brightness = 100, !.contrast = 100, !.saturation = 100, !.highlights = 100,
     !.shadows = 100, !.vignette = 100, !.sharpening = 100, !.grainAmount = 100,
     !.grainSize = 5, !.halation = 100,
     !.hsl = [red |-> MaxHSLBand, yellow |-> MaxHSLBand, green |-> MaxHSLBand,
              cyan |-> MaxHSLBand, blue |-> MaxHSLBand, magenta |-> MaxHSLBand]]

MinAdjustments ==
  [createDefaultAdjustments EXCEPT
     !.brightness = -100, !.contrast = -100, !.saturation = -100, !.highlights = -100,
     !.shadows = -100, !.sharpening = 50, !.grainSize = 1,
     !.hsl = [red |-> MinHSLBand, yellow |-> MinHSLBand, green |-> MinHSLBand,
              cyan |-> MinHSLBand, blue |-> MinHSLBand, magenta |-> MinHSLBand]]

AdjustmentsSet ==
  {createDefaultAdjustments, ToneAdjustments, TextureAdjustments, MaxAdjustments,
   MinAdjustments}

\* a 2 x 2 x 2 table LUT (each entry a number in [0, 255])
SmallTable ==
  [ size |-> 2, kind |-> "table",
    data |-> ForEach(24, LAMBDA j :
               Fix(<< 10, 20, 30,  250, 40, 20,  30, 240, 60,  255, 255, 0,
                      0, 30, 220,  240, 10, 250,  20, 230, 240,  250, 250, 250 >>[j])) ]

ProviaLUT ==
  GeneratedContainer("Provia", createDefaultAdjustments.whiteBalance,
                     createDefaultAdjustments.grading)

LUTs == {ProviaLUT, SmallTable}

\* alpha buffers of the test masks, one byte per pixel of a w x h image
AlphaPattern(cycle, n) == ForEach(n, LAMBDA p : cycle[((p - 1) % Len(cycle)) + 1])

TestMasks(img) ==
  LET n == img.width * img.height
      brush == AlphaPattern(<<0, 255, 128, 0, 0, 255, 64, 255, 1>>, n)
      ring == AlphaPattern(<<255, 255, 0, 255, 0, 200>>, n)
  IN [ painted |-> [id |-> 1, visible |-> TRUE, opacity |-> HALF, data |-> brush,
                    adjustments |-> [exposure |-> 100, contrast |-> 50, saturation |-> -30,
                                     temperature |-> 20, tint |-> -10, sharpness |-> 0]],
       dark |-> [id |-> 2, visible |-> TRUE, opacity |-> ONE, data |-> ring,
                 adjustments |-> [exposure |-> -100, contrast |-> -100, saturation |-> 100,
                                  temperature |-> -100, tint |-> 100, sharpness |-> 100]],
       hidden |-> [id |-> 3, visible |-> FALSE, opacity |-> ONE, data |-> ring,
                   adjustments |-> createDefaultLocalAdjustments] ]

MaskLists(img) ==
  LET m == TestMasks(img)
  IN { <<>>, <<m.painted>>, <<m.hidden, m.dark, m.painted>> }

\* ---------------------------------------------------------------------
\* Host: triggerProcessing (App.tsx)
\* ---------------------------------------------------------------------
\* what one applyLUT call was given and what it returned
CallRecord(pixelData, lut, adj, inten, ms, result) ==
  [ pixelData |-> pixelData, lut |-> lut, adjustments |-> adj, intensity |-> inten,
    masks |-> ms, result |-> result ]

\* triggerProcessing reading lutRef from currentFinalLUT.current, with the image,
\* adjustments, intensity and masks it closed over.  processedCanvas is the
\* image putImageData wrote (the halation glow composited over it afterwards is
\* canvas filtering, outside the engine)
triggerProcessing(lutRef, image, adj, inten, ms) ==
  IF image = <<>> \/ lutRef = <<>> \/ image[1].width = 0
  THEN /\ isProcessing' = FALSE
       /\ UNCHANGED << histogramData, processedCanvas, random, lastCall >>
  ELSE \E result \in { applyLUT(image[1], lutRef[1], adj, inten, ms) } :
          /\ histogramData' = << result.histogram >>
          /\ processedCanvas' = << result.imageData >>
          /\ random' = result.random
          /\ lastCall' = << CallRecord(image[1], lutRef[1], adj, inten, ms, result) >>
          /\ isProcessing' = FALSE

\* ---------------------------------------------------------------------
\* Renders of given inputs: the engine called on every combination of the
\* test inputs, MaxRenders times in a row
\* ---------------------------------------------------------------------
\* number of renders of the same inputs
MaxRenders == 2

\* no generator exists before the first render: the initial value of random
\* is a placeholder the engine never reads
InitRender ==
  /\ originalImage \in { <<img>> : img \in Images }
  /\ currentFinalLUT \in { <<lut>> : lut \in LUTs }
  /\ adjustments \in AdjustmentsSet
  /\ intensity \in Intensities
  /\ masks \in MaskLists(originalImage[1])
  /\ currentFilm = "Provia"
  /\ activeMaskId = <<>>
  /\ lutTimer = <<>>
  /\ renderTimer = <<>>
  /\ isProcessing = TRUE
  /\ histogramData = <<>>
  /\ processedCanvas = <<>>
  /\ random = mulberry32(0)
  /\ lastCall = <<>>
  /\ lastCommit = <<>>
  /\ events = 0
  /\ batch = <<>>
  /\ maskCanvas = <<>>
  /\ brushSettings = defaultBrushSettings

\* one more render of the inputs; events counts the renders made
Render ==
  /\ events < MaxRenders
  /\ triggerProcessing(currentFinalLUT, originalImage, adjustments, intensity, masks)
  /\ events' = events + 1
  /\ UNCHANGED << maskCanvas, brushSettings, batch, originalImage, currentFilm,
                  intensity, adjustments, masks,
                  activeMaskId,
                  currentFinalLUT, lutTimer, renderTimer, lastCommit >>

NextRender == Render

SpecRender == InitRender /\ [][NextRender]_vars

\* the last applyLUT call
Call == lastCall[1]

Rendered == lastCall # <<>>

\* pixel numbers of an image, in loop order from 1
PixelsOf(img) == 1..(img.width * img.height)

\* byte k (1 = R, 2 = G, 3 = B, 4 = A) of pixel number p of a buffer
Byte(data, p, k) == data[(p - 1) * 4 + k]

\* ---------------------------------------------------------------------
\* Properties of a render
\* ---------------------------------------------------------------------
\* the image and the histogram the last applyLUT call returned
Out == Call.result.imageData

Hist == Call.result.histogram

\* the sum of hist[lo .. hi]
RECURSIVE SumBins(_, _, _)
SumBins(hist, lo, hi) ==
  IF lo = hi THEN hist[lo]
  ELSE SumBins(hist, lo, (lo + hi) \div 2) + SumBins(hist, ((lo + hi) \div 2) + 1, hi)

\* the number of pixels of an image whose byte of channel k has value v
CountBytes(img, k, v) == Cardinality({ p \in PixelsOf(img) : Byte(img.data, p, k) = v })

TextureRan == Call.result.tex # <<>>

\* C1: in the image a render returns (main pass followed by the texture
\* pass), the alpha byte of every pixel equals the alpha byte of the same
\* pixel of the source, whatever the LUT, adjustments, intensity and masks
C1_AlphaPreserved ==
  Rendered =>
    /\ Out.width = Call.pixelData.width /\ Out.height = Call.pixelData.height
    /\ Len(Out.data) = Len(Call.pixelData.data)
    /\ \A p \in PixelsOf(Call.pixelData) :
         Byte(Out.data, p, 4) = Byte(Call.pixelData.data, p, 4)

\* a render with masks and the texture pass that changed the colour of a
\* half-transparent pixel and of a fully transparent one
C1_Witness ==
  /\ Rendered /\ TextureRan /\ Call.masks # <<>> /\ Call.intensity > 0
  /\ \E p, q \in PixelsOf(Call.pixelData) :
       /\ Byte(Call.pixelData.data, p, 4) = 128 /\ Byte(Out.data, p, 4) = 128
       /\ Byte(Out.data, p, 1) # Byte(Call.pixelData.data, p, 1)
       /\ Byte(Call.pixelData.data, q, 4) = 0 /\ Byte(Out.data, q, 4) = 0
       /\ Byte(Out.data, q, 2) # Byte(Call.pixelData.data, q, 2)

\* the identity adjustments: intensity 0, no masks, the Provia LUT with white
\* balance (0, 0) and zero grading, every tone and HSL slider 0, no
\* sharpening, grain or vignette
IdentityCall ==
  /\ Call.intensity = 0
  /\ Call.masks = <<>>
  /\ Call.lut = ProviaLUT
  /\ Call.adjustments = createDefaultAdjustments

\* C2: with the identity adjustments every R, G and B byte of the render
\* output equals the corresponding source byte, for every pixel
C2_Identity ==
  Rendered /\ IdentityCall =>
    \A p \in PixelsOf(Call.pixelData) : \A k \in 1..3 :
      Byte(Out.data, p, k) = Byte(Call.pixelData.data, p, k)

\* an identity render of an image of several pixels, among them black,
\* white and coloured ones, whose dither moved a value off the integer
C2_Witness ==
  /\ Rendered /\ IdentityCall
  /\ Call.pixelData.width > 1
  /\ \E p, q, r \in PixelsOf(Call.pixelData) :
       /\ Byte(Out.data, p, 1) = 0 /\ Byte(Out.data, q, 1) = 255
       /\ Byte(Out.data, r, 1) = 200 /\ Byte(Out.data, r, 2) = 30
       /\ Call.result.main[r][1] # Fix(200)

\* C3 (as stated): for each channel and each k in 0..255, histogram bin k
\* equals the number of pixels whose byte of that channel in the returned
\* image is k, for every adjustment combination
C3_HistogramOfOutput ==
  Rendered =>
    \A v \in 0..255 :
      /\ Hist.r[v] = CountBytes(Out, 1, v)
      /\ Hist.g[v] = CountBytes(Out, 2, v)
      /\ Hist.b[v] = CountBytes(Out, 3, v)

\* C4: the 256 bins of each histogram channel sum to exactly w * h
C4_HistogramTotal ==
  Rendered =>
    /\ DOMAIN Hist.r = 0..255 /\ DOMAIN Hist.g = 0..255 /\ DOMAIN Hist.b = 0..255
    /\ SumBins(Hist.r, 0, 255) = Call.pixelData.width * Call.pixelData.height
    /\ SumBins(Hist.g, 0, 255) = Call.pixelData.width * Call.pixelData.height
    /\ SumBins(Hist.b, 0, 255) = Call.pixelData.width * Call.pixelData.height

\* a render of an image of several pixels under extreme tone adjustments:
\* a value is clamped into bin 0 and several pixels share another bin
C4_Witness ==
  /\ Rendered
  /\ Call.pixelData.width * Call.pixelData.height > 1
  /\ Call.adjustments.contrast = 100 /\ Call.adjustments.brightness = 100
  /\ Hist.r[0] > 0
  /\ \E v \in 1..255 : Hist.r[v] > 2

\* the inputs of two successive calls are identical
SameInputs(c, d) ==
  /\ c.pixelData = d.pixelData /\ c.lut = d.lut /\ c.adjustments = d.adjustments
  /\ c.intensity = d.intensity /\ c.masks = d.masks

\* C5: a render given the same source pixels, LUT, adjustments, intensity
\* and masks as the render before it returns the same image and the same
\* histogram, however many renders ran before, and each pass has created
\* its generator from the fixed seed: the generator created last is left in
\* the state that many calls away from the seed as the pass made (one per
\* pixel, none in a texture pass without grain)
C5_Deterministic ==
  [][ lastCall' # <<>> =>
        /\ random' = Advance(mulberry32(SEED),
                             IF lastCall'[1].result.tex # <<>>
                                /\ lastCall'[1].adjustments.grainAmount = 0
                             THEN 0
                             ELSE lastCall'[1].pixelData.width
                                    * lastCall'[1].pixelData.height)
        /\ (lastCall # <<>> /\ SameInputs(lastCall[1], lastCall'[1])) =>
              /\ lastCall'[1].result.imageData = lastCall[1].result.imageData
              /\ lastCall'[1].result.histogram = lastCall[1].result.histogram ]_vars

\* the second render of a several-pixel image with grain, whose dither and
\* grain both moved values
C5_Witness ==
  /\ Rendered /\ events = MaxRenders
  /\ Call.adjustments.grainAmount > 0 /\ Call.intensity > 0
  /\ Call.pixelData.width > 1
  /\ random = Advance(mulberry32(SEED), Call.pixelData.width * Call.pixelData.height)
  /\ \E p \in PixelsOf(Call.pixelData) :
       Byte(Out.data, p, 1) # ToUint8Clamped(Call.result.main[p][1])

\* the documented ranges of the Adjustments fields and of the mask fields
InRanges(adj, ms) ==
  /\ \A f \in {"brightness", "contrast", "saturation", "highlights", "shadows"} :
       adj[f] \in -100..100
  /\ \A f \in {"grainAmount", "sharpening", "vignette", "halation"} : adj[f] \in 0..100
  /\ adj.grainSize \in 1..5
  /\ \A n \in DOMAIN adj.hsl :
       adj.hsl[n].h \in -30..30 /\ adj.hsl[n].s \in -100..100 /\ adj.hsl[n].l \in -100..100
  /\ \A k \in 1..Len(ms) :
       /\ ms[k].opacity \in 0..ONE
       /\ \A f \in DOMAIN ms[k].adjustments : ms[k].adjustments[f] \in -100..100

\* a stored value is a finite number in [0, 255]
FiniteByte(v) == v # NaN /\ v >= 0 /\ v <= Fix(255)

\* C6: for adjustments inside the documented ranges, every R, G, B value a
\* render stores into the output, in the main pass and in the texture pass,
\* is a finite number in [0, 255], and every histogram index is in 0..255
C6_FiniteInRange ==
  Rendered /\ InRanges(Call.adjustments, Call.masks) =>
    /\ \A p \in DOMAIN Call.result.main : \A k \in 1..3 :
         /\ FiniteByte(Call.result.main[p][k])
         /\ ToInt32(Call.result.main[p][k]) \in 0..255
    /\ \A p \in DOMAIN Call.result.tex : \A k \in 1..3 : FiniteByte(Call.result.tex[p][k])

\* a render at the ends of the ranges, with masks at the ends of theirs,
\* whose texture pass sharpened the interior pixel and stored values at
\* both ends of [0, 255]
C6_Witness ==
  /\ Rendered /\ InRanges(Call.adjustments, Call.masks)
  /\ Call.adjustments.contrast = -100 /\ Call.adjustments.sharpening > 0
  /\ Len(Call.masks) > 1
  /\ Call.pixelData.width > 2 /\ Call.pixelData.height > 2
  /\ \E p \in DOMAIN Call.result.tex :
       Call.result.tex[p][1] # Fix(Byte(Call.result.imageData.data, p, 1))
  /\ \E p \in DOMAIN Call.result.main : Call.result.main[p][1] = 0

\* s without its element number k
RemoveAt(s, k) == SubSeq(s, 1, k - 1) \o SubSeq(s, k + 1, Len(s))

WithoutMask(k) ==
  applyLUT(Call.pixelData, Call.lut, Call.adjustments, Call.intensity,
           RemoveAt(Call.masks, k))

FilmNone == "None"

\* every other grid index taken when the parameters are not the identity
CoarseIdx == {0, 10, 21, LUT_SIZE - 1}

WarmWB == [temp |-> 50, tint |-> -20]

\* grading with hues and no saturation, and grading with saturation
HueOnlyGrading ==
  [shadows |-> [h |-> 120, s |-> 0], midtones |-> [h |-> 30, s |-> 0],
   highlights |-> [h |-> 300, s |-> 0]]

TealOrangeGrading ==
  [shadows |-> [h |-> 200, s |-> 40], midtones |-> [h |-> 0, s |-> 0],
   highlights |-> [h |-> 30, s |-> 60]]

\* white balance (0, 0) and all three grading saturations 0
IdentityParams(wb, grading) ==
  /\ wb.temp = 0 /\ wb.tint = 0
  /\ grading.shadows.s = 0 /\ grading.midtones.s = 0 /\ grading.highlights.s = 0

\* one iteration of the loops of generateFilmStyleLUT
CornerRecord(type, wb, grading, rIdx, gIdx, bIdx, stored) ==
  [ type |-> type, wb |-> wb, grading |-> grading,
    rIdx |-> rIdx, gIdx |-> gIdx, bIdx |-> bIdx, stored |-> stored ]

\* every grid corner for Provia and for FilmNone under the default
\* parameters; the coarse corners for every film and parameter combination
InitLUT ==
  /\ currentFilm \in Films \cup {FilmNone}
  /\ adjustments \in
       { [createDefaultAdjustments EXCEPT !.whiteBalance = wb, !.grading = gr] :
           wb \in {createDefaultAdjustments.whiteBalance, WarmWB},
           gr \in {createDefaultAdjustments.grading, HueOnlyGrading, TealOrangeGrading} }
  /\ lastCall \in
       { << CornerRecord(currentFilm, adjustments.whiteBalance, adjustments.grading,
                         ri, gi, bi, <<>>) >> :
           ri \in 0..(LUT_SIZE - 1), gi \in 0..(LUT_SIZE - 1), bi \in 0..(LUT_SIZE - 1) }
  /\ \/ /\ currentFilm \in {"Provia", FilmNone}
        /\ adjustments = createDefaultAdjustments
     \/ /\ lastCall[1].rIdx \in CoarseIdx /\ lastCall[1].gIdx \in CoarseIdx
        /\ lastCall[1].bIdx \in CoarseIdx
  /\ originalImage = <<>>
  /\ intensity = ONE
  /\ masks = <<>>
  /\ activeMaskId = <<>>
  /\ currentFinalLUT = <<>>
  /\ lutTimer = <<>>
  /\ renderTimer = <<>>
  /\ isProcessing = TRUE
  /\ histogramData = <<>>
  /\ processedCanvas = <<>>
  /\ random = mulberry32(0)
  /\ lastCommit = <<>>
  /\ events = 0
  /\ batch = <<>>
  /\ maskCanvas = <<>>
  /\ brushSettings = defaultBrushSettings

\* the loop body for the corner drawn: the three bytes it stores; the
\* synthesizer's result becomes the cached LUT
StoreCorner ==
  /\ lastCall[1].stored = <<>>
  /\ lastCall' = << [lastCall[1] EXCEPT !.stored =
                       LutCorner(currentFilm, adjustments.whiteBalance, adjustments.grading,
                                 lastCall[1].rIdx, lastCall[1].gIdx, lastCall[1].bIdx)] >>
  /\ currentFinalLUT' = << GeneratedContainer(currentFilm, adjustments.whiteBalance,
                                              adjustments.grading) >>
  /\ UNCHANGED << maskCanvas, brushSettings, batch, originalImage, currentFilm,
                  intensity, adjustments, masks,
                  activeMaskId,
                  lutTimer, renderTimer, isProcessing, histogramData, processedCanvas,
                  random, lastCommit, events >>

NextLUT == StoreCorner

SpecLUT == InitLUT /\ [][NextLUT]_vars

\* the corner whose bytes were stored last
Corner == lastCall[1]

Stored == lastCall # <<>> /\ Corner.stored # <<>>

\* a stored byte v differs by at most 1 from idx * 255 / (LUT_SIZE - 1)
NearGrid(v, idx) ==
  /\ (LUT_SIZE - 1) * v - 255 * idx <= LUT_SIZE - 1
  /\ 255 * idx - (LUT_SIZE - 1) * v <= LUT_SIZE - 1

NearIdentity ==
  /\ NearGrid(Corner.stored[1], Corner.rIdx)
  /\ NearGrid(Corner.stored[2], Corner.gIdx)
  /\ NearGrid(Corner.stored[3], Corner.bIdx)

\* C7 (as stated): synthesizing with the identity parameters, the film being
\* Provia, stores at every grid corner R, G, B samples that each differ by
\* at most 1 from ri * 255 / 31, gi * 255 / 31, bi * 255 / 31
C7_ProviaIdentity ==
  (Stored /\ Corner.type = "Provia" /\ IdentityParams(Corner.wb, Corner.grading))
    => NearIdentity

\* C7 (amended): with a film that matches no case of the switch (FilmNone),
\* white balance (0, 0) and all three grading saturations 0, every grid
\* corner stores samples within 1 of ri * 255 / 31, gi * 255 / 31,
\* bi * 255 / 31, and the cached array holds them at the corner's index;
\* under the same parameters Provia applies its vibrance and film curve
C7_PassThroughIdentity ==
  (Stored /\ Corner.type = FilmNone /\ IdentityParams(Corner.wb, Corner.grading))
    => /\ NearIdentity
       /\ \A k \in 1..3 :
            GeneratedAt(currentFinalLUT[1].data,
                        LutIndex(Corner.rIdx, Corner.gIdx, Corner.bIdx) + k - 1)
              = Corner.stored[k]

\* an interior corner stored under FilmNone and the identity parameters
C7_Witness ==
  /\ Stored /\ Corner.type = FilmNone /\ IdentityParams(Corner.wb, Corner.grading)
  /\ Corner.rIdx = 7 /\ Corner.gIdx = 20 /\ Corner.bIdx = 30
  /\ Corner.stored = <<58, 165, 247>>

\* ---------------------------------------------------------------------
\* The trilinear sample of step 3 on given LUTs and colour values
\* ---------------------------------------------------------------------
\* largest side of the table LUTs sampled
MaxTableSize == 4

\* a table LUT of the given side; entry j is a number in [0, 255.75]
TableLUT(size) ==
  [ size |-> size, kind |-> "table",
    data |-> ForEach(3 * size * size * size, LAMBDA j :
               Fix((j * 53 + (j \div 3) * 101 + (j \div 7) * 29) % 256) + (j % 4) * (ONE \div 4)) ]

SampledLUTs == { SmallTable, TableLUT(MaxTableSize), ProviaLUT }

\* the grid indices whose coordinate idx * 255 / (size - 1) is taken: all of
\* a table LUT, the two ends of a generated one
ProbeIdx(lut) == IF lut.kind = "table" THEN 0..(lut.size - 1) ELSE {0, lut.size - 1}

\* the colour value at (twice idx) / 2 grid steps on each axis
GridColour(lut, twice) ==
  << (255 * ONE * twice[1]) \div (2 * (lut.size - 1)),
     (255 * ONE * twice[2]) \div (2 * (lut.size - 1)),
     (255 * ONE * twice[3]) \div (2 * (lut.size - 1)) >>

\* the unit step along axis 1 (R), 2 (G) or 3 (B)
Unit(axis) == << IF axis = 1 THEN 1 ELSE 0, IF axis = 2 THEN 1 ELSE 0, IF axis = 3 THEN 1 ELSE 0 >>

\* the post-tone colours sampled: every probed grid corner and the midpoint
\* of every grid edge that leaves it
ProbeColours(lut) ==
  { GridColour(lut, <<2 * ri, 2 * gi, 2 * bi>>) :
      ri \in ProbeIdx(lut), gi \in ProbeIdx(lut), bi \in ProbeIdx(lut) }
  \cup
  { GridColour(lut, <<2 * ri + Unit(axis)[1], 2 * gi + Unit(axis)[2], 2 * bi + Unit(axis)[3]>>) :
      ri \in ProbeIdx(lut), gi \in ProbeIdx(lut), bi \in ProbeIdx(lut), axis \in 1..3 }

\* one run of step 3: the LUT, the post-tone colour and the sample
SampleRecord(lut, colour, sample) == [lut |-> lut, colour |-> colour, sample |-> sample]

InitTri ==
  /\ currentFinalLUT \in { <<lut>> : lut \in SampledLUTs }
  /\ lastCall \in { << SampleRecord(currentFinalLUT[1], c, <<>>) >> :
                      c \in { d \in ProbeColours(currentFinalLUT[1]) :
                                \A k \in 1..3 : d[k] <= Fix(255) } }
  /\ originalImage = <<>>
  /\ currentFilm = "Provia"
  /\ intensity = ONE
  /\ adjustments = createDefaultAdjustments
  /\ masks = <<>>
  /\ activeMaskId = <<>>
  /\ lutTimer = <<>>
  /\ renderTimer = <<>>
  /\ isProcessing = FALSE
  /\ histogramData = <<>>
  /\ processedCanvas = <<>>
  /\ random = mulberry32(0)
  /\ lastCommit = <<>>
  /\ events = 0
  /\ batch = <<>>
  /\ maskCanvas = <<>>
  /\ brushSettings = defaultBrushSettings

\* step 3 of the pixel loop on the colour drawn
Sample ==
  /\ lastCall[1].sample = <<>>
  /\ lastCall' = << [lastCall[1] EXCEPT !.sample = LutLookup(lastCall[1].lut, lastCall[1].colour)] >>
  /\ UNCHANGED << maskCanvas, brushSettings, batch, originalImage, currentFilm,
                  intensity, adjustments, masks,
                  activeMaskId,
                  currentFinalLUT, lutTimer, renderTimer, isProcessing, histogramData,
                  processedCanvas, random, lastCommit, events >>

NextTri == Sample

SpecTri == InitTri /\ [][NextTri]_vars

Probe == lastCall[1]

Sampled == lastCall # <<>> /\ Probe.sample # <<>>

\* the colour c lies exactly on grid corner idx of the LUT
OnCorner(c, lut, idx) == \A k \in 1..3 : c[k] * (lut.size - 1) = 255 * ONE * idx[k]

\* the colour c lies exactly at the midpoint of the grid edge that leaves
\* corner idx along the axis
OnEdgeMidpoint(c, lut, idx, axis) ==
  \A k \in 1..3 : 2 * c[k] * (lut.size - 1) = 255 * ONE * (2 * idx[k] + Unit(axis)[k])

GridCorners(lut) ==
  { <<ri, gi, bi>> : ri \in 0..(lut.size - 1), gi \in 0..(lut.size - 1),
                     bi \in 0..(lut.size - 1) }

\* the three values the LUT stores for grid corner idx
StoredAt(lut, idx) ==
  LutTriple(lut, (idx[1] + idx[2] * lut.size + idx[3] * lut.size * lut.size) * 3)

\* C8: when the post-tone colour lies exactly on a grid corner the trilinear
\* sample equals that corner's stored value, and when it lies at the midpoint
\* of a grid edge the sample equals the mean of the stored values of the
\* edge's two endpoints to within 1 per channel
C8_Trilinear ==
  Sampled =>
    \A idx \in GridCorners(Probe.lut) :
      /\ OnCorner(Probe.colour, Probe.lut, idx)
           => Probe.sample = StoredAt(Probe.lut, idx)
      /\ \A axis \in 1..3 :
           (idx[axis] < Probe.lut.size - 1
              /\ OnEdgeMidpoint(Probe.colour, Probe.lut, idx, axis)) =>
             LET a == StoredAt(Probe.lut, idx)
                 b == StoredAt(Probe.lut, << idx[1] + Unit(axis)[1], idx[2] + Unit(axis)[2],
                                            idx[3] + Unit(axis)[3] >>)
             IN \A k \in 1..3 :
                  /\ 2 * Probe.sample[k] - (a[k] + b[k]) <= 2 * ONE
                  /\ (a[k] + b[k]) - 2 * Probe.sample[k] <= 2 * ONE

\* a sample taken at the midpoint of an interior G edge of a table whose two
\* endpoints store different values, the sample being neither of them
C8_Witness ==
  /\ Sampled /\ Probe.lut.size > 2 /\ Probe.lut.kind = "table"
  /\ OnEdgeMidpoint(Probe.colour, Probe.lut, <<1, 1, 2>>, 2)
  /\ StoredAt(Probe.lut, <<1, 1, 2>>) # StoredAt(Probe.lut, <<1, 2, 2>>)
  /\ Probe.sample # StoredAt(Probe.lut, <<1, 1, 2>>)
  /\ Probe.sample # StoredAt(Probe.lut, <<1, 2, 2>>)

\* ---------------------------------------------------------------------
\* Host: state handlers, effects and timers of App (App.tsx)
\* ---------------------------------------------------------------------
\* number of user events in a run
MaxEvents == 3

\* number of mask layers the runs create
MaxMasks == 1

\* the image the user uploads
HostImages == { TestImage(1, 1, "mixed") }

\* the value the user drags a slider to
SliderValues == {40}

\* the film the user selects
HostFilms == {"Velvia"}

\* the intensity the user sets
HostIntensities == {HALF}

\* one entry of the preset list: "Kodak Gold"
Presets ==
  { [contrast |-> 10, saturation |-> 10, shadows |-> 10, highlights |-> -20,
     grainAmount |-> 25, whiteBalance |-> [temp |-> 15, tint |-> -5],
     grading |-> [highlights |-> [h |-> 45, s |-> 15], shadows |-> [h |-> 220, s |-> 5]]] }

\* result.adjustments of two analyses: one without and one with white balance
AIResults ==
  { [contrast |-> 20, sharpening |-> 30],
    [brightness |-> 10, whiteBalance |-> [temp |-> 10]] }

\* { ...base, ...partial }
Spread(base, partial) ==
  [k \in DOMAIN base \cup DOMAIN partial |-> IF k \in DOMAIN partial THEN partial[k] ELSE base[k]]

\* partial[key] when present, else the empty object
Part(partial, key) == IF key \in DOMAIN partial THEN partial[key] ELSE <<>>

\* the three ranges of a grading each spread over the default range
SpreadGrading(defaults, partial) ==
  [r \in {"shadows", "midtones", "highlights"} |-> Spread(defaults[r], Part(partial, r))]

\* what a timer callback closed over at the render that scheduled it
Closure(id, film, image, adj, inten, ms) ==
  [ id |-> id, film |-> film, image |-> image, adjustments |-> adj, intensity |-> inten,
    masks |-> ms ]

\* for comparison: an effect that depends on every render
EveryCommit(filmChanged, wbReplaced, gradingReplaced) == TRUE

\* dependency list of the LUT effect
LutEffectRuns(filmChanged, wbReplaced, gradingReplaced) ==
  filmChanged \/ wbReplaced \/ gradingReplaced

\* for comparison: a render effect that depends on the adjustments alone
AdjustmentsOnly(adjReplaced, intensityChanged, imageReplaced, masksReplaced) ==
  adjReplaced

\* dependency list of the render effect
RenderEffectRuns(adjReplaced, intensityChanged, imageReplaced, masksReplaced) ==
  adjReplaced \/ intensityChanged \/ imageReplaced \/ masksReplaced

\* One commit of React: the state a handler set, then the effects whose
\* dependencies changed.  replaced names the objects the handler built anew
\* (object dependencies compare by identity, primitive ones by value).  The
\* mask canvas is a ref: what the handler did to it is stated by the handler.
Commit(name, film, image, adj, inten, ms, active, hist, replaced) ==
  LET c == Closure(events + 1, film, image, adj, inten, ms)
      lutRuns == LutEffectRuns(film # currentFilm, "whiteBalance" \in replaced,
                               "grading" \in replaced)
      renderRuns == RenderEffectRuns("adjustments" \in replaced, inten # intensity,
                                     "originalImage" \in replaced, "masks" \in replaced)
  IN /\ events' = events + 1
     /\ lastCommit' = << name >>
     /\ currentFilm' = film
     /\ originalImage' = image
     /\ adjustments' = adj
     /\ intensity' = inten
     /\ masks' = ms
     /\ activeMaskId' = active
     /\ histogramData' = hist
     /\ lutTimer' = IF lutRuns THEN << c >> ELSE lutTimer
     /\ isProcessing' = IF lutRuns THEN TRUE ELSE isProcessing
     /\ renderTimer' = IF renderRuns THEN << c >> ELSE renderTimer
     /\ UNCHANGED << currentFinalLUT, processedCanvas, random, lastCall, batch, brushSettings >>

\* a commit that keeps what the handler does not set
Set(name, film, adj, inten, ms, active, replaced) ==
  /\ Commit(name, film, originalImage, adj, inten, ms, active, histogramData, replaced)
  /\ UNCHANGED maskCanvas

\* the state after the first render of App: both effects have run once
Init ==
  /\ originalImage = <<>>
  /\ currentFilm = "Provia"
  /\ intensity = ONE
  /\ adjustments = createDefaultAdjustments
  /\ masks = <<>>
  /\ activeMaskId = <<>>
  /\ currentFinalLUT = <<>>
  /\ lutTimer = << Closure(0, "Provia", <<>>, createDefaultAdjustments, ONE, <<>>) >>
  /\ renderTimer = << Closure(0, "Provia", <<>>, createDefaultAdjustments, ONE, <<>>) >>
  /\ isProcessing = TRUE
  /\ histogramData = <<>>
  /\ processedCanvas = <<>>
  /\ random = mulberry32(0)
  /\ lastCall = <<>>
  /\ lastCommit = <<>>
  /\ events = 0
  /\ batch = <<>>
  /\ maskCanvas = <<>>
  /\ brushSettings = defaultBrushSettings

handleUpload ==
  /\ events < MaxEvents
  /\ \E img \in HostImages :
       /\ Commit("handleUpload", currentFilm, << img >>, adjustments, intensity, <<>>, <<>>,
                 <<>>, {"originalImage", "masks"})
       /\ maskCanvas' = << createCanvas(img.width, img.height) >>

\* ids of the mask layers
MaskIds == { masks[i].id : i \in DOMAIN masks }

\* masks.map(m => m.id === id ? f(m) : m)
MapMask(ms, id, F(_)) == ForEach(Len(ms), LAMBDA i : IF ms[i].id = id THEN F(ms[i]) ELSE ms[i])

\* masks.filter(m => m.id !== id)
RECURSIVE FilterMask(_, _)
FilterMask(ms, id) ==
  IF ms = <<>> THEN <<>>
  ELSE (IF ms[1].id # id THEN << ms[1] >> ELSE <<>>) \o FilterMask(Tail(ms), id)

\* the id is the time of the click, told apart here by the event number
handleAddMask ==
  /\ events < MaxEvents
  /\ Len(masks) < MaxMasks
  /\ IF originalImage = <<>>
     THEN Set("handleAddMask", currentFilm, adjustments, intensity, masks, activeMaskId, {})
     ELSE LET newMask == [ id |-> events + 1, visible |-> TRUE, opacity |-> ONE,
                           data |-> AlphaPattern(<<0>>, originalImage[1].width
                                                           * originalImage[1].height),
                           adjustments |-> createDefaultLocalAdjustments ]
          IN /\ Commit("handleAddMask", currentFilm, originalImage, adjustments, intensity,
                       Append(masks, newMask), << newMask.id >>, histogramData, {"masks"})
             /\ maskCanvas' = IF maskCanvas = <<>> THEN maskCanvas
                              ELSE << clearRect(maskCanvas[1]) >>

\* a delete that leaves the selection alone, for comparison
KeepActive(active, id) == active

\* if (activeMaskId === id) setActiveMaskId(null)
ActiveAfterDelete(active, id) == IF active = << id >> THEN <<>> ELSE active

handleDeleteMask ==
  /\ events < MaxEvents
  /\ \E id \in MaskIds :
       Set("handleDeleteMask", currentFilm, adjustments, intensity, FilterMask(masks, id),
           ActiveAfterDelete(activeMaskId, id), {"masks"})

handleToggleMask ==
  /\ events < MaxEvents
  /\ \E id \in MaskIds :
       Set("handleToggleMask", currentFilm, adjustments, intensity,
           MapMask(masks, id, LAMBDA m : [m EXCEPT !.visible = ~m.visible]), activeMaskId,
           {"masks"})

handleSelectMask ==
  /\ events < MaxEvents
  /\ \E id \in MaskIds :
       /\ Commit("handleSelectMask", currentFilm, originalImage, adjustments, intensity,
                 masks, << id >>, histogramData, {})
       /\ maskCanvas' = IF maskCanvas = <<>> \/ originalImage = <<>> THEN maskCanvas
                        ELSE << putMask(maskCanvas[1], originalImage[1],
                                        FindMask(masks, id).data) >>

handleLocalAdjChange ==
  /\ events < MaxEvents
  /\ \E id \in MaskIds, key \in {"exposure"}, val \in {50} :
       Set("handleLocalAdjChange", currentFilm, adjustments, intensity,
           MapMask(masks, id, LAMBDA m : [m EXCEPT !.adjustments[key] = val]), activeMaskId,
           {"masks"})

\* a commit that gives the canvas's buffer to every mask, for comparison
CommitToAll(ms, active, newData) ==
  ForEach(Len(ms), LAMBDA i : [ms[i] EXCEPT !.data = newData])

\* prev.map(m => m.id === activeMaskId ? { ...m, data: newData } : m)
CommitData(ms, active, newData) ==
  MapMask(ms, active, LAMBDA m : [m EXCEPT !.data = newData])

\* the listener of mouseup on the window: with an active mask and a mask
\* canvas it commits the canvas, otherwise it sets nothing
handleMouseUp ==
  /\ events < MaxEvents
  /\ IF activeMaskId = <<>> \/ maskCanvas = <<>>
     THEN Set("handleMouseUp", currentFilm, adjustments, intensity, masks, activeMaskId, {})
     ELSE \E newData \in { canvasToMaskData(maskCanvas[1]) } :
            Set("handleMouseUp", currentFilm, adjustments, intensity,
                CommitData(masks, activeMaskId[1], newData), activeMaskId, {"masks"})

\* onStroke of the canvas view, once per mouse move while drawing; the
\* pixels at the rim of the line, covered in part, are left as they were
handleBrushStroke ==
  /\ events < MaxEvents
  /\ IF activeMaskId = <<>> \/ maskCanvas = <<>>
     THEN UNCHANGED maskCanvas
     ELSE \E covered \in SUBSET (1..Len(maskCanvas[1].alpha)) \ {{}} :
          \E share \in ShadowShares :
            maskCanvas' = << drawStroke(maskCanvas[1], covered, share, brushSettings) >>
  /\ events' = events + 1
  /\ lastCommit' = << "handleBrushStroke" >>
  /\ UNCHANGED << brushSettings, batch, originalImage, currentFilm, intensity, adjustments,
                  masks, activeMaskId, currentFinalLUT, lutTimer, renderTimer, isProcessing,
                  histogramData, processedCanvas, random, lastCall >>

\* the eraser button and the flow slider of the brush
BrushChanges == { <<"isEraser", TRUE>>, <<"isEraser", FALSE>>, <<"opacity", 50>>,
                  <<"opacity", 100>> }

\* onBrushChange: setBrushSettings(prev => ({...prev, [k]: v})); no effect
\* depends on the brush
handleBrushChange ==
  /\ events < MaxEvents
  /\ \E kv \in BrushChanges :
       brushSettings' = [brushSettings EXCEPT ![kv[1]] = kv[2]]
  /\ events' = events + 1
  /\ lastCommit' = << "handleBrushChange" >>
  /\ UNCHANGED << maskCanvas, batch, originalImage, currentFilm, intensity, adjustments,
                  masks, activeMaskId, currentFinalLUT, lutTimer, renderTimer, isProcessing,
                  histogramData, processedCanvas, random, lastCall >>

\* the updates made when the analysis returns
handleAIAutoAdjust ==
  /\ events < MaxEvents
  /\ IF originalImage = <<>>
     THEN Set("handleAIAutoAdjust", currentFilm, adjustments, intensity, masks, activeMaskId, {})
     ELSE \E result \in AIResults :
            LET defaults == createDefaultAdjustments
                prev == adjustments
                adj == [ Spread(prev, result) EXCEPT
                           !.hsl = IF "hsl" \in DOMAIN result
                                   THEN Spread(defaults.hsl, result.hsl) ELSE prev.hsl,
                           !.whiteBalance = IF "whiteBalance" \in DOMAIN result
                                            THEN Spread(defaults.whiteBalance, result.whiteBalance)
                                            ELSE prev.whiteBalance,
                           !.grading = IF "grading" \in DOMAIN result
                                       THEN SpreadGrading(defaults.grading, result.grading)
                                       ELSE prev.grading,
                           !.sharpening = IF "sharpening" \in DOMAIN result
                                          THEN result.sharpening ELSE prev.sharpening ]
            IN Set("handleAIAutoAdjust", FilmNone, adj, intensity, masks, activeMaskId,
                   {"adjustments"} \cup ({"whiteBalance", "grading"} \cap DOMAIN result))

handleApplyPreset ==
  /\ events < MaxEvents
  /\ \E presetAdjustments \in Presets :
       LET defaults == createDefaultAdjustments
           adj == [ Spread(defaults, presetAdjustments) EXCEPT
                      !.hsl = Spread(defaults.hsl, Part(presetAdjustments, "hsl")),
                      !.whiteBalance = Spread(defaults.whiteBalance,
                                              Part(presetAdjustments, "whiteBalance")),
                      !.grading = IF "grading" \in DOMAIN presetAdjustments
                                  THEN SpreadGrading(defaults.grading, presetAdjustments.grading)
                                  ELSE defaults.grading ]
       IN Set("handleApplyPreset", FilmNone, adj, ONE, masks, activeMaskId,
              {"adjustments", "whiteBalance", "grading"})

handleAdjustmentChange ==
  /\ events < MaxEvents
  /\ \E key \in {"brightness"}, val \in SliderValues :
       Set("handleAdjustmentChange", currentFilm, [adjustments EXCEPT ![key] = val], intensity,
           masks, activeMaskId, {"adjustments"})

handleHSLChange ==
  /\ events < MaxEvents
  /\ \E c \in {"red"}, p \in {"s"}, v \in SliderValues :
       Set("handleHSLChange", currentFilm, [adjustments EXCEPT !.hsl[c][p] = v], intensity,
           masks, activeMaskId, {"adjustments"})

handleWBChange ==
  /\ events < MaxEvents
  /\ \E p \in {"temp"}, v \in SliderValues :
       Set("handleWBChange", currentFilm, [adjustments EXCEPT !.whiteBalance[p] = v], intensity,
           masks, activeMaskId, {"adjustments", "whiteBalance"})

handleGradingChange ==
  /\ events < MaxEvents
  /\ \E r \in {"shadows"}, p \in {"s"}, v \in SliderValues :
       Set("handleGradingChange", currentFilm, [adjustments EXCEPT !.grading[r][p] = v],
           intensity, masks, activeMaskId, {"adjustments", "grading"})

handleFilmChange ==
  /\ events < MaxEvents
  /\ \E film \in HostFilms :
       Set("handleFilmChange", film, adjustments, intensity, masks, activeMaskId, {})

handleIntensityChange ==
  /\ events < MaxEvents
  /\ \E val \in HostIntensities :
       Set("handleIntensityChange", currentFilm, adjustments, val, masks, activeMaskId, {})

handleReset ==
  /\ events < MaxEvents
  /\ Set("handleReset", "Provia", createDefaultAdjustments, ONE, <<>>, <<>>,
         {"adjustments", "whiteBalance", "grading", "masks"})

\* the callback of a timer: the LUT timer first stores a newly generated LUT
\* in currentFinalLUT.current; both then call the triggerProcessing of the
\* render that scheduled them
TimerCallback(name, c, lutRef) ==
  /\ currentFinalLUT' = lutRef
  /\ triggerProcessing(lutRef, c.image, c.adjustments, c.intensity, c.masks)
  /\ lastCommit' = << name >>
  /\ UNCHANGED << maskCanvas, brushSettings, batch, originalImage, currentFilm,
                  intensity, adjustments, masks,
                  activeMaskId,
                  events >>

\* which timer callback runs: the one of the LUT effect or of the render effect
TimerFires(name) ==
  \E c \in { IF name = "LutTimerFires" THEN lutTimer[1] ELSE renderTimer[1] } :
    \E lutRef \in { IF name = "LutTimerFires"
                    THEN << GeneratedContainer(c.film, c.adjustments.whiteBalance,
                                               c.adjustments.grading) >>
                    ELSE currentFinalLUT } :
      /\ lutTimer' = IF name = "LutTimerFires" THEN <<>> ELSE lutTimer
      /\ renderTimer' = IF name = "LutTimerFires" THEN renderTimer ELSE <<>>
      /\ TimerCallback(name, c, lutRef)

\* the LUT timer runs 10 ms after it was set
LutTimerFires == lutTimer # <<>> /\ TimerFires("LutTimerFires")

\* for comparison: timers that run in any order
NeverDue(lt, rt) == FALSE

\* the LUT timer lt runs 10 ms and the render timer rt 15 ms after they were
\* set: a LUT timer set by the same commit as the render timer or by an
\* earlier one is due before it
LutTimerDue(lt, rt) == lt.id <= rt.id

\* the render timer runs when no LUT timer is due before it
RenderTimerFires ==
  /\ renderTimer # <<>>
  /\ IF lutTimer = <<>> THEN TRUE ELSE ~LutTimerDue(lutTimer[1], renderTimer[1])
  /\ TimerFires("RenderTimerFires")

Next ==
  \/ handleUpload
  \/ handleAddMask
  \/ handleDeleteMask
  \/ handleToggleMask
  \/ handleSelectMask
  \/ handleLocalAdjChange
  \/ handleMouseUp
  \/ handleAIAutoAdjust
  \/ handleApplyPreset
  \/ handleAdjustmentChange
  \/ handleHSLChange
  \/ handleWBChange
  \/ handleGradingChange
  \/ handleFilmChange
  \/ handleIntensityChange
  \/ handleReset
  \/ LutTimerFires
  \/ RenderTimerFires

Spec == Init /\ [][Next]_vars

\* ---------------------------------------------------------------------
\* Properties of the host's scheduling
\* ---------------------------------------------------------------------
\* the three values the LUT is synthesized from
LutParams == << currentFilm, adjustments.whiteBalance, adjustments.grading >>

\* what a timer scheduled by the step closes over
NewClosure == Closure(events', currentFilm', originalImage', adjustments', intensity', masks')

\* the step is the handler `name`
Handled(name) == events' = events + 1 /\ lastCommit' = << name >>

\* the step schedules a synthesis of the LUT
LutScheduled == lutTimer' # <<>> /\ lutTimer' # lutTimer

\* the step is the callback of the LUT timer, of the render timer
LutTimerFired == lutTimer # <<>> /\ lutTimer' = <<>>

RenderTimerFired == renderTimer # <<>> /\ renderTimer' = <<>>

\* the step leaves the cached LUT and its timer alone and schedules a render
RenderOnly ==
  /\ lutTimer' = lutTimer
  /\ currentFinalLUT' = currentFinalLUT
  /\ renderTimer' = << NewClosure >>

\* C9 as stated: a synthesis of the LUT is scheduled only by an event that
\* changes the selected film, the white balance or the grading, and an event
\* that changes another adjustment, the intensity or the mask list without
\* changing those three schedules a render and no synthesis.
C9_OnlyOnChange ==
  [][ /\ LutScheduled => LutParams' # LutParams
      /\ ( /\ events' = events + 1
           /\ LutParams' = LutParams
           /\ << adjustments, intensity, masks >>' # << adjustments, intensity, masks >> )
         => RenderOnly ]_vars

\* C9 (amended): the cached LUT is written only by the callback of the LUT
\* timer, with the LUT generated from the film, white balance and grading of
\* the render that scheduled it.  That timer is scheduled by handleFilmChange
\* when the film differs, and by handleWBChange, handleGradingChange,
\* handleReset and handleApplyPreset always, whether or not a value differs;
\* otherwise only by an analysis result.  handleAdjustmentChange,
\* handleHSLChange, handleUpload and the mask handlers, and
\* handleIntensityChange with another value, leave the LUT and its timer alone
\* and schedule a render; the callback of the render timer leaves the LUT alone
\* and renders with the cached one.
C9_LutReuse ==
  [][ /\ currentFinalLUT' # currentFinalLUT =>
           /\ LutTimerFired
           /\ currentFinalLUT' = << GeneratedContainer(lutTimer[1].film,
                                                       lutTimer[1].adjustments.whiteBalance,
                                                       lutTimer[1].adjustments.grading) >>
      /\ LutScheduled =>
           /\ lutTimer' = << NewClosure >>
           /\ \/ Handled("handleFilmChange") /\ currentFilm' # currentFilm
              \/ Handled("handleWBChange")
              \/ Handled("handleGradingChange")
              \/ Handled("handleReset")
              \/ Handled("handleApplyPreset")
              \/ Handled("handleAIAutoAdjust")
      /\ ( \/ Handled("handleWBChange")
           \/ Handled("handleGradingChange")
           \/ Handled("handleReset")
           \/ Handled("handleApplyPreset") ) => LutScheduled /\ renderTimer' = << NewClosure >>
      /\ ( \/ Handled("handleAdjustmentChange")
           \/ Handled("handleHSLChange")
           \/ Handled("handleUpload")
           \/ Handled("handleDeleteMask")
           \/ Handled("handleToggleMask")
           \/ Handled("handleLocalAdjChange") ) => RenderOnly
      /\ ( \/ Handled("handleIntensityChange") /\ intensity' # intensity
           \/ Handled("handleAddMask") /\ masks' # masks
           \/ Handled("handleMouseUp") /\ masks' # masks ) => RenderOnly
      /\ ( \/ Handled("handleSelectMask")
           \/ Handled("handleFilmChange") /\ currentFilm' = currentFilm
           \/ Handled("handleIntensityChange") /\ intensity' = intensity )
         => UNCHANGED << lutTimer, renderTimer, currentFinalLUT >>
      /\ (RenderTimerFired /\ ~LutTimerFired) =>
           /\ currentFinalLUT' = currentFinalLUT
           /\ (renderTimer[1].image # <<>> /\ currentFinalLUT # <<>>) =>
                /\ lastCall' # <<>>
                /\ lastCall'[1].lut = currentFinalLUT[1]
                /\ lastCall'[1].adjustments = renderTimer[1].adjustments ]_vars

\* a tone change has been rendered by the render timer with the LUT that was
\* cached before it, and no synthesis is pending
C9_Witness ==
  /\ lastCommit = << "RenderTimerFires" >>
  /\ lutTimer = <<>>
  /\ lastCall # <<>>
  /\ lastCall[1].adjustments.brightness = 40
  /\ lastCall[1].adjustments.whiteBalance = createDefaultAdjustments.whiteBalance
  /\ currentFinalLUT = << lastCall[1].lut >>
  /\ lastCall[1].lut = ProviaLUT

\* ---------------------------------------------------------------------
\* Composition of the masks
\* ---------------------------------------------------------------------
\* the masks of the last call that take part in it, in list order
Taking == SelectSeq(Call.masks, LAMBDA m : m.visible /\ m.opacity > 0)

\* the colour of pixel p of the last call before the mask stage
MixAt(p) ==
  Bind(GlobalTone(Byte(Call.pixelData.data, p, 1), Byte(Call.pixelData.data, p, 2),
                  Byte(Call.pixelData.data, p, 3), Call.adjustments), LAMBDA tone :
  Bind(LutLookup(Call.lut, tone), LAMBDA l :
    IF Call.intensity # ONE
    THEN << lerp(tone[1], l[1], Call.intensity), lerp(tone[2], l[2], Call.intensity),
            lerp(tone[3], l[3], Call.intensity) >>
    ELSE l))

\* the colour the main pass stores for pixel p when the mask stage leaves loc
AfterMasks(loc, p) ==
  VignetteDither(loc, Call.adjustments, Call.pixelData.width, Call.pixelData.height,
                 (p - 1) % Call.pixelData.width, (p - 1) \div Call.pixelData.width,
                 RandomAt(newRandom, p - 1))

\* C11: masks are applied in list order and each mask works on the colour the
\* masks before it produced: with two masks m1, m2 taking part, the colour of
\* every pixel is m2 applied to the result of m1 applied to the pre-mask colour
C11_ListOrder ==
  (Rendered /\ Len(Taking) = 2) =>
    \A p \in PixelsOf(Call.pixelData) :
      \E c \in { MixAt(p) } :
        Call.result.main[p] =
          AfterMasks(MaskBlend(MaskBlend(c, Taking[1], p - 1), Taking[2], p - 1), p)

\* a render with two masks taking part and a pixel both cover, where the
\* other order and the second mask applied to the pre-mask colour give
\* other colours
C11_Witness ==
  /\ Rendered /\ Len(Taking) = 2
  /\ \E p \in PixelsOf(Call.pixelData) :
       /\ Taking[1].data[p] > 0 /\ Taking[2].data[p] > 0
       /\ \E c \in { MixAt(p) } :
            /\ Call.result.main[p] #
                 AfterMasks(MaskBlend(MaskBlend(c, Taking[2], p - 1), Taking[1], p - 1), p)
            /\ Call.result.main[p] # AfterMasks(MaskBlend(c, Taking[2], p - 1), p)

\* ---------------------------------------------------------------------
\* Renders of two-pixel images under one mask, with parameters inside and
\* outside their documented ranges
\* ---------------------------------------------------------------------
\* RGBA of the pixels the two-pixel images are made of
LocalColours ==
  << <<100, 100, 100, 255>>, <<20, 40, 250, 255>>, <<10, 200, 90, 0>>,
     <<3, 60, 127, 255>> >>

TwoPixels(a, b) == [ width |-> 2, height |-> 1, data |-> LocalColours[a] \o LocalColours[b] ]

\* the two-pixel images, and the image of a canvas of width 0
LocalImages ==
  { TwoPixels(a, b) : a, b \in DOMAIN LocalColours }
  \cup { [ width |-> 0, height |-> 0, data |-> <<>> ] }

\* one visible mask, whose alpha buffer has the length of a two-pixel image
\* or another one
LocalMask(alpha, opacity, exposure) ==
  [ id |-> 1, visible |-> TRUE, opacity |-> opacity, data |-> alpha,
    adjustments |-> [createDefaultLocalAdjustments EXCEPT !.exposure = exposure] ]

LocalMaskLists ==
  { << LocalMask(alpha, opacity, exposure) >> :
      alpha \in { <<0, 255>>, <<255, 0>>, <<128, 255>>, <<255>>, <<0, 255, 255>> },
      opacity \in {HALF, ONE, 2 * ONE}, exposure \in {100, 33, -100} }

\* the default Adjustments value, and one with a brightness beyond 100
LocalAdjustmentsSet ==
  { createDefaultAdjustments, [createDefaultAdjustments EXCEPT !.brightness = 200] }

InitLocal ==
  /\ originalImage \in { <<img>> : img \in LocalImages }
  /\ currentFinalLUT = << ProviaLUT >>
  /\ adjustments \in LocalAdjustmentsSet
  /\ intensity \in {0, ONE, 2 * ONE}
  /\ masks \in LocalMaskLists
  /\ currentFilm = "Provia"
  /\ activeMaskId = <<>>
  /\ lutTimer = <<>>
  /\ renderTimer = <<>>
  /\ isProcessing = TRUE
  /\ histogramData = <<>>
  /\ processedCanvas = <<>>
  /\ random = mulberry32(0)
  /\ lastCall = <<>>
  /\ lastCommit = <<>>
  /\ events = 0
  /\ batch = <<>>
  /\ maskCanvas = <<>>
  /\ brushSettings = defaultBrushSettings

NextLocal == Render

SpecLocal == InitLocal /\ [][NextLocal]_vars

\* the last call is the one of the mask locality example: alpha [0, 255],
\* opacity 1, local exposure +100, everything else identity
LocalityCall ==
  /\ Rendered
  /\ Call.pixelData.width = 2 /\ Call.pixelData.height = 1
  /\ Call.adjustments = createDefaultAdjustments
  /\ Call.intensity \in {0, ONE}
  /\ Call.masks = << LocalMask(<<0, 255>>, ONE, 100) >>

\* the left pixel is rendered as without the mask (and as the source with
\* intensity 0)
LeftUnchanged ==
  \A k \in 1..3 :
    /\ Byte(Out.data, 1, k) = Byte(WithoutMask(1).imageData.data, 1, k)
    /\ Call.intensity = 0 => Byte(Out.data, 1, k) = Byte(Call.pixelData.data, 1, k)

\* each byte of the right pixel is, to the rounding of the store, the
\* pre-mask value times gain (in units of 1/ONE), clamped to 255
RightGained(gain) ==
  \E c \in { MixAt(2) } :
    \A k \in 1..3 :
      FAbs(FSub(Fix(Byte(Out.data, 2, k)), FMin(Fix(255), FMul(c[k], gain)))) <= ONE

\* C12 (as stated): in the mask locality example the left pixel is unchanged
\* and each channel of the right pixel is twice its pre-mask value, clamped
\* to 255
C12_Doubled == LocalityCall => (LeftUnchanged /\ RightGained(2 * ONE))

\* C12 (amended): in the mask locality example the left pixel is unchanged
\* and each channel of the right pixel is 2^(100/33), about 8.17, times its
\* pre-mask value, clamped to 255
C12_Gain == LocalityCall => (LeftUnchanged /\ RightGained(Pow2Over33(100)))

\* the example rendered on a right pixel that the gain does not saturate in
\* every channel
C12_Witness ==
  /\ LocalityCall
  /\ Byte(Call.pixelData.data, 2, 1) = 3
  /\ Byte(Out.data, 2, 1) < 255 /\ Byte(Out.data, 2, 1) > 6
  /\ Byte(Out.data, 2, 3) = 255

\* ---------------------------------------------------------------------
\* The mask stage on given colours: step 4 of the pixel loop run for one
\* pixel under one mask, whose alpha a brush stroke raises between runs
\* ---------------------------------------------------------------------
\* pre-mask colour values
BlendColours ==
  { << Fix(100), Fix(100), Fix(100) >>, << Fix(20), Fix(40), Fix(250) >>,
    << Fix(255), Fix(255), Fix(255) >>, << Fix(3) + HALF, Fix(60) + (ONE \div 4), Fix(127) >>,
    << 0, Fix(200), Fix(90) >> }

BlendAdjustments ==
  { [createDefaultLocalAdjustments EXCEPT !.exposure = 100],
    [createDefaultLocalAdjustments EXCEPT !.exposure = -100],
    [createDefaultLocalAdjustments EXCEPT !.contrast = 50, !.saturation = -30,
                                          !.temperature = 20, !.tint = -10],
    [createDefaultLocalAdjustments EXCEPT !.contrast = -100, !.saturation = 100] }

BlendAlphas == {0, 16, 50, 127}

\* one run of step 4: the pre-mask colour, the mask and the colour left
BlendRecord(colour, mask, out) == [colour |-> colour, mask |-> mask, out |-> out]

InitBlend ==
  /\ masks \in { << [ id |-> 1, visible |-> TRUE, opacity |-> o, data |-> << a >>,
                      adjustments |-> adj ] >> :
                   o \in {ONE \div 4, HALF, ONE}, a \in BlendAlphas, adj \in BlendAdjustments }
  /\ lastCall \in { << BlendRecord(c, <<>>, <<>>) >> : c \in BlendColours }
  /\ originalImage = <<>>
  /\ currentFinalLUT = <<>>
  /\ currentFilm = "Provia"
  /\ intensity = ONE
  /\ adjustments = createDefaultAdjustments
  /\ activeMaskId = << 1 >>
  /\ lutTimer = <<>>
  /\ renderTimer = <<>>
  /\ isProcessing = FALSE
  /\ histogramData = <<>>
  /\ processedCanvas = <<>>
  /\ random = mulberry32(0)
  /\ lastCommit = <<>>
  /\ events = 0
  /\ batch = <<>>
  /\ maskCanvas = <<>>
  /\ brushSettings = defaultBrushSettings

\* step 4 of the pixel loop on the colour drawn, under the masks as they are
Blend ==
  /\ events < MaxEvents
  /\ lastCall[1].mask # masks[1]
  /\ lastCall' = << BlendRecord(lastCall[1].colour, masks[1],
                                MaskStage(lastCall[1].colour, ActiveMasks(masks), 1, 0)) >>
  /\ events' = events + 1
  /\ UNCHANGED << maskCanvas, brushSettings, batch, originalImage, currentFilm,
                  intensity, adjustments, masks,
                  activeMaskId,
                  currentFinalLUT, lutTimer, renderTimer, isProcessing, histogramData,
                  processedCanvas, random, lastCommit >>

\* a stroke committed on the active mask: the alpha at the pixel is doubled
\* (a first stroke paints 16), or painted solid
Stroke ==
  /\ events < MaxEvents
  /\ \E a \in { IF masks[1].data[1] = 0 THEN 16
                ELSE IF masks[1].data[1] > 127 THEN 255 ELSE 2 * masks[1].data[1], 255 } :
       /\ a > masks[1].data[1]
       /\ masks' = MapMask(masks, activeMaskId[1], LAMBDA m : [m EXCEPT !.data = << a >>])
  /\ events' = events + 1
  /\ UNCHANGED << maskCanvas, brushSettings, batch, originalImage, currentFilm,
                  intensity, adjustments, activeMaskId,
                  currentFinalLUT, lutTimer, renderTimer, isProcessing, histogramData,
                  processedCanvas, random, lastCommit, lastCall >>

NextBlend == Blend \/ Stroke

SpecBlend == InitBlend /\ [][NextBlend]_vars

\* x lies strictly between a and b
StrictlyBetween(x, a, b) == (a < x /\ x < b) \/ (b < x /\ x < a)

\* the record r of a run has the colour lerp(c, local(c),
\* (alpha/255)*opacity), which is c at alpha 0, local(c) at alpha 255 with
\* opacity 1, and strictly between them at an alpha strictly between
BlendIsLerp(r) ==
  \E loc \in { applyLocalAdj(r.colour[1], r.colour[2], r.colour[3], r.mask.adjustments) } :
    \A k \in 1..3 :
      /\ r.out[k] = r.colour[k]
                    + FMul(FMul((r.mask.data[1] * ONE) \div 255, r.mask.opacity),
                           loc[k] - r.colour[k])
      /\ r.mask.data[1] = 0 => r.out[k] = r.colour[k]
      /\ (r.mask.data[1] = 255 /\ r.mask.opacity = ONE) => r.out[k] = loc[k]
      /\ (r.mask.data[1] \in 1..254 /\ loc[k] # r.colour[k])
           => StrictlyBetween(r.out[k], r.colour[k], loc[k])

\* from the run r to the run s, made with more alpha, each channel moved
\* towards the locally adjusted colour
MovedTowardsLocal(r, s) ==
  \E loc \in { applyLocalAdj(r.colour[1], r.colour[2], r.colour[3], r.mask.adjustments) } :
    \A k \in 1..3 :
      IF loc[k] > r.colour[k] THEN s.out[k] > r.out[k]
      ELSE IF loc[k] < r.colour[k] THEN s.out[k] < r.out[k]
      ELSE s.out[k] = r.out[k]

\* C13: under one visible mask the colour after the mask stage is
\* lerp(c, local(c), (alpha/255)*opacity): c at alpha 0, local(c) at alpha 255
\* with opacity 1, strictly between the two at every alpha strictly between
\* when they differ, and moving towards local(c) when the alpha grows (when
\* it is doubled in particular)
C13_MaskLerp ==
  [][ lastCall' # lastCall =>
        /\ BlendIsLerp(lastCall[1]')
        /\ lastCall[1].out # <<>> =>
             /\ lastCall[1]'.mask.data[1] > lastCall[1].mask.data[1]
             /\ MovedTowardsLocal(lastCall[1], lastCall[1]') ]_vars

\* a run at a doubled alpha strictly between 0 and 255 that left a colour
\* other than the pre-mask colour and than the locally adjusted colour
C13_Witness ==
  /\ lastCall # <<>> /\ events = 3
  /\ lastCall[1].out # <<>>
  /\ lastCall[1].mask.data[1] = 100
  /\ lastCall[1].mask.adjustments.exposure = 100
  /\ lastCall[1].out[1] > lastCall[1].colour[1]
  /\ lastCall[1].out[1] < Fix(255)

\* ---------------------------------------------------------------------
\* The arguments of a render on its return
\* ---------------------------------------------------------------------
\* C14: a render never writes to its inputs: on return the source pixel
\* buffer, the LUT, the Adjustments value and every mask hold the values
\* they were passed with, and the output was stored into a buffer of its own
C14_InputsUntouched ==
  Rendered =>
    /\ Call.result.inputs.pixelData = Call.pixelData.data
    /\ Call.result.inputs.lut = Call.lut
    /\ Call.result.inputs.adjustments = Call.adjustments
    /\ Call.result.inputs.masks = Call.masks
    /\ \A k \in 1..Len(Call.masks) : Call.result.inputs.masks[k].data = Call.masks[k].data
    /\ Call.result.buffer # "pixelData"

\* a render under masks whose two passes both ran and whose output differs
\* from the source
C14_Witness ==
  /\ Rendered /\ TextureRan
  /\ Len(Call.masks) > 0
  /\ Out.data # Call.pixelData.data
  /\ Call.result.inputs.pixelData = Call.pixelData.data

\* ---------------------------------------------------------------------
\* Grain size
\* ---------------------------------------------------------------------
\* pixels p and q of a width-wide image lie in the same s x s block
SameBlock(p, q, width, s) ==
  /\ ((p - 1) % width) \div s = ((q - 1) % width) \div s
  /\ ((p - 1) \div width) \div s = ((q - 1) \div width) \div s

\* C15: with grainAmount > 0 and grainSize s > 1 all pixels of one s x s
\* block (equal floor(x/s) and equal floor(y/s)) receive the same grain noise
\* value from the generator
C15_GrainBlocks ==
  (Rendered /\ Call.adjustments.grainAmount > 0 /\ Call.adjustments.grainSize > 1) =>
    \A p, q \in PixelsOf(Call.pixelData) :
      SameBlock(p, q, Call.pixelData.width, Call.adjustments.grainSize)
        => Call.result.noise[p] = Call.result.noise[q]

\* ---------------------------------------------------------------------
\* Requests of invalid shape
\* ---------------------------------------------------------------------
\* the shapes of a request are invalid: a width or height that is not
\* positive, a source buffer whose length is not 4 w h, or a mask whose alpha
\* buffer length is not w h
InvalidShapes(image, ms) ==
  \/ image.width <= 0
  \/ image.height <= 0
  \/ Len(image.data) # 4 * image.width * image.height
  \/ \E k \in 1..Len(ms) : Len(ms[k].data) # image.width * image.height

\* C16: a render request whose shapes are invalid is rejected instead of
\* producing an output image: once it was made there is no output image, no
\* histogram and no completed call
C16_InvalidRejected ==
  (events > 0 /\ InvalidShapes(originalImage[1], masks)) =>
    (lastCall = <<>> /\ processedCanvas = <<>> /\ histogramData = <<>>)

\* ---------------------------------------------------------------------
\* Parameters outside their documented ranges
\* ---------------------------------------------------------------------
\* v brought to the nearest bound of [lo, hi]
ClampTo(v, lo, hi) == IF v < lo THEN lo ELSE IF v > hi THEN hi ELSE v

\* the Adjustments value adj with its tone sliders brought into [-100, 100]
\* and its texture sliders into their ranges
ClampedAdjustments(adj) ==
  [adj EXCEPT !.brightness = ClampTo(@, -100, 100), !.contrast = ClampTo(@, -100, 100),
              !.saturation = ClampTo(@, -100, 100), !.highlights = ClampTo(@, -100, 100),
              !.shadows = ClampTo(@, -100, 100), !.vignette = ClampTo(@, 0, 100),
              !.sharpening = ClampTo(@, 0, 100), !.grainAmount = ClampTo(@, 0, 100),
              !.grainSize = ClampTo(@, 1, 5)]

\* the masks with their opacity brought into [0, 1]
ClampedMasks(ms) == ForEach(Len(ms), LAMBDA k : [ms[k] EXCEPT !.opacity = ClampTo(@, 0, ONE)])

\* a parameter of the last call lies outside its documented range
OutOfRange ==
  \/ Call.adjustments # ClampedAdjustments(Call.adjustments)
  \/ Call.intensity # ClampTo(Call.intensity, 0, ONE)
  \/ Call.masks # ClampedMasks(Call.masks)

\* C17: a render given a parameter outside its documented range does not
\* fail and returns the output of the render with that parameter clamped to
\* the nearest bound of its range
C17_ClampedSilently ==
  (Rendered /\ OutOfRange) =>
    Out = applyLUT(Call.pixelData, Call.lut, ClampedAdjustments(Call.adjustments),
                   ClampTo(Call.intensity, 0, ONE), ClampedMasks(Call.masks)).imageData

\* ---------------------------------------------------------------------
\* parseCube (services/cubeLoader.ts).  A text is a sequence of lines; a
\* line is its kind, decided by how the trimmed line starts ("blank",
\* "comment" for '#', "size" for LUT_3D_SIZE, "min" for DOMAIN_MIN, "max" for
\* DOMAIN_MAX, "keyword" for another line that /^[A-Z_]+/ matches, "row"
\* otherwise), and its parts, the result of split(/\s+/): tokens that are a
\* number <<"n", v>> (v in units of 1/ONE) or a word <<"w", s>>
\* ---------------------------------------------------------------------
\* parseInt(tok): the integer part of a number, NaN for a word or no token
ParseInt(parts, k) ==
  IF k > Len(parts) THEN NaN
  ELSE IF parts[k][1] = "w" THEN NaN
  ELSE IF parts[k][2] >= 0 THEN parts[k][2] \div ONE ELSE -((-parts[k][2]) \div ONE)

\* parseFloat(tok): NaN for a word or no token
ParseFloat(parts, k) ==
  IF k > Len(parts) THEN NaN ELSE IF parts[k][1] = "w" THEN NaN ELSE parts[k][2]

\* a * b of two integers or NaN
NumMul(a, b) == IF a = NaN \/ b = NaN THEN NaN ELSE a * b

\* new Float32Array(n): n zeros, no element for NaN, a RangeError for n < 0
Float32Array(n) ==
  IF n = NaN THEN [thrown |-> <<>>, array |-> <<>>]
  ELSE IF n < 0 THEN [thrown |-> << "RangeError" >>, array |-> <<>>]
  ELSE [thrown |-> <<>>, array |-> [j \in 1..n |-> 0]]

\* the state of the parser before any line: data is << >> for null
CubeStart == [ size |-> 0, min |-> <<0, 0, 0>>, max |-> <<ONE, ONE, ONE>>, dataIndex |-> 0,
               data |-> <<>>, thrown |-> <<>> ]

\* (parseFloat(parts[k]) - min[k]) / (max[k] - min[k])
CubeSample(parts, k, st) ==
  FDiv(FSub(ParseFloat(parts, k), st.min[k]), FSub(st.max[k], st.min[k]))

\* the while loop over the data lines, from line number cur on
RECURSIVE CubeRows(_, _, _)
CubeRows(lines, cur, st) ==
  IF cur <= Len(lines) /\ st.dataIndex < Len(st.data[1])
  THEN IF lines[cur].kind \in {"blank", "comment"} THEN CubeRows(lines, cur + 1, st)
       ELSE IF Len(lines[cur].parts) >= 3
       THEN CubeRows(lines, cur + 1,
              [st EXCEPT !.data = << [st.data[1] EXCEPT
                                        ![st.dataIndex + 1] = CubeSample(lines[cur].parts, 1, st),
                                        ![st.dataIndex + 2] = CubeSample(lines[cur].parts, 2, st),
                                        ![st.dataIndex + 3] = CubeSample(lines[cur].parts, 3, st)] >>,
                         !.dataIndex = st.dataIndex + 3])
       ELSE CubeRows(lines, cur + 1, st)
  ELSE st

\* the for loop over the lines, from line number i on
RECURSIVE CubeHeader(_, _, _)
CubeHeader(lines, i, st) ==
  IF i > Len(lines) THEN st
  ELSE IF lines[i].kind \in {"blank", "comment"} THEN CubeHeader(lines, i + 1, st)
  ELSE IF lines[i].kind = "size"
  THEN Bind(ParseInt(lines[i].parts, 2), LAMBDA size :
       Bind(Float32Array(NumMul(NumMul(NumMul(size, size), size), 3)), LAMBDA new :
         IF new.thrown # <<>> THEN [st EXCEPT !.size = size, !.thrown = new.thrown]
         ELSE CubeHeader(lines, i + 1, [st EXCEPT !.size = size, !.data = << new.array >>])))
  ELSE IF lines[i].kind = "min"
  THEN CubeHeader(lines, i + 1,
         [st EXCEPT !.min = << ParseFloat(lines[i].parts, 2), ParseFloat(lines[i].parts, 3),
                               ParseFloat(lines[i].parts, 4) >>])
  ELSE IF lines[i].kind = "max"
  THEN CubeHeader(lines, i + 1,
         [st EXCEPT !.max = << ParseFloat(lines[i].parts, 2), ParseFloat(lines[i].parts, 3),
                               ParseFloat(lines[i].parts, 4) >>])
  ELSE IF lines[i].kind = "row"
  THEN IF st.data = <<>> THEN [st EXCEPT !.thrown = << "LUT_3D_SIZE not found before data" >>]
       ELSE CubeRows(lines, i, st)
  ELSE CubeHeader(lines, i + 1, st)

\* parseCube(text, name): thrown holds the error it throws, value the
\* container it returns; filled is the dataIndex it reached
parseCube(lines, name) ==
  Bind(CubeHeader(lines, 1, CubeStart), LAMBDA st :
    IF st.thrown # <<>> THEN [thrown |-> st.thrown, value |-> <<>>, filled |-> st.dataIndex]
    ELSE IF st.data = <<>> \/ st.size = 0
    THEN [thrown |-> << "Invalid CUBE file" >>, value |-> <<>>, filled |-> st.dataIndex]
    ELSE [thrown |-> <<>>, filled |-> st.dataIndex,
          value |-> << [size |-> st.size, data |-> st.data[1], name |-> name] >>])

\* ---------------------------------------------------------------------
\* parseCube on given texts
\* ---------------------------------------------------------------------
MaxCubeRows == 9

Num(v) == << "n", v >>

Word(s) == << "w", s >>

CubeLine(kind, parts) == [kind |-> kind, parts |-> parts]

\* the LUT_3D_SIZE lines tried: sizes 2, 1, 0, -1, 2.5, a word, no argument
SizeLines ==
  { CubeLine("size", << Word("LUT_3D_SIZE") >> \o arg) :
      arg \in { << Num(Fix(2)) >>, << Num(Fix(1)) >>, << Num(0) >>, << Num(Fix(-1)) >>,
                << Num(Fix(2) + HALF) >>, << Word("abc") >>, <<>> } }

\* data row number j
CubeRow(j) ==
  CubeLine("row", << Num((j * ONE) \div 16), Num(((j + 3) * ONE) \div 16),
                     Num(((16 - j) * ONE) \div 16) >>)

\* what may precede the size line
CubePreambles ==
  { <<>>,
    << CubeLine("comment", << Word("#"), Word("made"), Word("by"), Word("hand") >>),
       CubeLine("keyword", << Word("TITLE"), Word("x") >>), CubeLine("blank", <<>>) >> }

\* texts with no or one size line followed by n data rows
CubeTexts ==
  { pre \o head \o ForEach(n, LAMBDA j : CubeRow(j)) :
      pre \in CubePreambles, head \in { <<>> } \cup { << l >> : l \in SizeLines },
      n \in 0..MaxCubeRows }

\* one call of parseCube: the text and what the call did
CubeRecord(text, result) == [text |-> text, result |-> result]

InitCube ==
  /\ lastCall \in { << CubeRecord(t, <<>>) >> : t \in CubeTexts }
  /\ originalImage = <<>>
  /\ currentFinalLUT = <<>>
  /\ currentFilm = "Provia"
  /\ intensity = ONE
  /\ adjustments = createDefaultAdjustments
  /\ masks = <<>>
  /\ activeMaskId = <<>>
  /\ lutTimer = <<>>
  /\ renderTimer = <<>>
  /\ isProcessing = FALSE
  /\ histogramData = <<>>
  /\ processedCanvas = <<>>
  /\ random = mulberry32(0)
  /\ lastCommit = <<>>
  /\ events = 0
  /\ batch = <<>>
  /\ maskCanvas = <<>>
  /\ brushSettings = defaultBrushSettings

\* parseCube on the text drawn
ParseText ==
  /\ lastCall[1].result = <<>>
  /\ lastCall' = << CubeRecord(lastCall[1].text, << parseCube(lastCall[1].text, "cube") >>) >>
  /\ UNCHANGED << maskCanvas, brushSettings, batch, originalImage, currentFilm,
                  intensity, adjustments, masks,
                  activeMaskId,
                  currentFinalLUT, lutTimer, renderTimer, isProcessing, histogramData,
                  processedCanvas, random, lastCommit, events >>

NextCube == ParseText

SpecCube == InitCube /\ [][NextCube]_vars

\* the last parseCube call, once made
Parsed == lastCall # <<>> /\ lastCall[1].result # <<>>

\* the tokens after LUT_3D_SIZE in the lines of a text that declare a size
DeclaredSizes(text) ==
  { SubSeq(text[i].parts, 2, Len(text[i].parts)) : i \in { j \in DOMAIN text : text[j].kind = "size" } }

\* the number of RGB data rows of a text
DataRows(text) == Cardinality({ i \in DOMAIN text : text[i].kind = "row" })

\* the text declares one size, a positive integer N, and has exactly N^3 rows
WellFormed(text) ==
  \E d \in DeclaredSizes(text) :
    /\ DeclaredSizes(text) = { d }
    /\ Len(d) = 1 /\ d[1][1] = "n"
    /\ d[1][2] > 0 /\ d[1][2] % ONE = 0
    /\ DataRows(text) = (d[1][2] \div ONE) * (d[1][2] \div ONE) * (d[1][2] \div ONE)

\* C18: parsing fails with an error and returns no LUT whenever the declared
\* LUT_3D_SIZE is not a positive integer N or the text does not supply
\* exactly N^3 RGB data rows; no LUT with missing or partially filled samples
\* is returned
C18_CubeRejected ==
  Parsed =>
    /\ ~WellFormed(lastCall[1].text)
          => (lastCall[1].result[1].thrown # <<>> /\ lastCall[1].result[1].value = <<>>)
    /\ lastCall[1].result[1].value # <<>>
          => lastCall[1].result[1].filled = Len(lastCall[1].result[1].value[1].data)

\* ---------------------------------------------------------------------
\* The films on single colours: renders of one-pixel images through the
\* LUT synthesized for each film with identity white balance and grading
\* ---------------------------------------------------------------------
\* RGBA of the pixels rendered
StampColours ==
  { <<128, 128, 128, 255>>, <<0, 0, 0, 255>>, <<255, 255, 255, 255>>, <<200, 30, 40, 255>>,
    <<10, 200, 90, 255>>, <<20, 40, 250, 255>>, <<64, 64, 64, 255>>, <<230, 200, 160, 255>> }

InitFilm ==
  /\ currentFilm \in Films \cup {FilmNone}
  /\ currentFinalLUT = << GeneratedContainer(currentFilm, createDefaultAdjustments.whiteBalance,
                                             createDefaultAdjustments.grading) >>
  /\ originalImage \in { << [width |-> 1, height |-> 1, data |-> c] >> : c \in StampColours }
  /\ intensity \in {HALF, ONE}
  /\ adjustments = createDefaultAdjustments
  /\ masks = <<>>
  /\ activeMaskId = <<>>
  /\ lutTimer = <<>>
  /\ renderTimer = <<>>
  /\ isProcessing = TRUE
  /\ histogramData = <<>>
  /\ processedCanvas = <<>>
  /\ random = mulberry32(0)
  /\ lastCall = <<>>
  /\ lastCommit = <<>>
  /\ events = 0
  /\ batch = <<>>
  /\ maskCanvas = <<>>
  /\ brushSettings = defaultBrushSettings

NextFilm == Render

SpecFilm == InitFilm /\ [][NextFilm]_vars

\* the last call rendered (128,128,128) with film Sepia, intensity 1 and
\* every other parameter identity
SepiaStamp ==
  /\ Rendered
  /\ currentFilm = "Sepia"
  /\ Call.pixelData.data = <<128, 128, 128, 255>>
  /\ Call.intensity = ONE
  /\ Call.adjustments = createDefaultAdjustments /\ Call.masks = <<>>

\* the output pixel is (r, g, b) to within 2 per channel
About(r, g, b) ==
  /\ Byte(Out.data, 1, 1) \in (r - 2)..(r + 2)
  /\ Byte(Out.data, 1, 2) \in (g - 2)..(g + 2)
  /\ Byte(Out.data, 1, 3) \in (b - 2)..(b + 2)

BatchFiles ==
  << TestImage(1, 1, "mixed"), [width |-> 1, height |-> 1, data |-> <<200, 30, 40, 128>>] >>

\* the file lists the user may choose, the empty one included
BatchLists == { <<>>, BatchFiles }

\* a batch that passes the masks of the editor, for comparison
EditorMasks(ms) == ms

\* the mask list handleBatchUpload passes to applyLUT: []
BatchMasks(ms) == <<>>

\* handleBatchUpload up to its first await: the file input is disabled while
\* isProcessing; adjustments and intensity are those of the render whose
\* handler this is, since counts the commits made when the 50 ms wait began
handleBatchUpload ==
  /\ batch = <<>>
  /\ maskCanvas = <<>>
  /\ brushSettings = defaultBrushSettings
  /\ ~isProcessing
  /\ \E files \in BatchLists :
       batch' = IF files = <<>> THEN batch
                ELSE << [ files |-> files, total |-> Len(files), adjustments |-> adjustments,
                          intensity |-> intensity, masks |-> masks, since |-> events,
                          zip |-> <<>> ] >>
  /\ lastCommit' = << "handleBatchUpload" >>
  /\ UNCHANGED << maskCanvas, brushSettings,
                  originalImage, currentFilm, intensity, adjustments, masks, activeMaskId,
                  currentFinalLUT, lutTimer, renderTimer, isProcessing, histogramData,
                  processedCanvas, random, lastCall, events >>

\* one iteration of the loop of handleBatchUpload, from the end of its 50 ms
\* wait to the next wait: the timers set before the wait began have fired;
\* a file whose applyLUT call throws (no LUT cached) is logged and left out
BatchFile ==
  /\ batch # <<>>
  /\ batch[1].files # <<>>
  /\ IF lutTimer = <<>> THEN TRUE ELSE lutTimer[1].id > batch[1].since
  /\ IF renderTimer = <<>> THEN TRUE ELSE renderTimer[1].id > batch[1].since
  /\ IF currentFinalLUT = <<>>
     THEN /\ batch' = << [batch[1] EXCEPT !.files = Tail(@), !.since = events] >>
          /\ UNCHANGED << random, lastCall >>
     ELSE \E ms \in { BatchMasks(batch[1].masks) } :
          \E result \in { applyLUT(Head(batch[1].files), currentFinalLUT[1],
                                    batch[1].adjustments, batch[1].intensity, ms) } :
          \E call \in { CallRecord(Head(batch[1].files), currentFinalLUT[1],
                                    batch[1].adjustments, batch[1].intensity, ms, result) } :
            /\ batch' = << [batch[1] EXCEPT !.files = Tail(@), !.since = events,
                                            !.zip = Append(@, call)] >>
            /\ random' = result.random
            /\ lastCall' = << call >>
  /\ lastCommit' = << "BatchFile" >>
  /\ UNCHANGED << maskCanvas, brushSettings,
                  originalImage, currentFilm, intensity, adjustments, masks, activeMaskId,
                  currentFinalLUT, lutTimer, renderTimer, isProcessing, histogramData,
                  processedCanvas, events >>

\* the mask of an editor at rest: painted over the pixel, with a local exposure
EditorMask ==
  [ id |-> 1, visible |-> TRUE, opacity |-> ONE, data |-> << 255 >>,
    adjustments |-> [createDefaultLocalAdjustments EXCEPT !.exposure = 50] ]

EditorAdjustments ==
  { createDefaultAdjustments, [createDefaultAdjustments EXCEPT !.brightness = 40],
    [createDefaultAdjustments EXCEPT !.whiteBalance.temp = 40] }

\* the editor at rest on an image: the LUT of the film, white balance and
\* grading is cached, the image is rendered, no timer is pending; events
\* counts the user events from here on
InitBatch ==
  /\ originalImage \in { << img >> : img \in HostImages }
  /\ currentFilm \in {"Provia", "Velvia"}
  /\ adjustments \in EditorAdjustments
  /\ intensity \in {HALF, ONE}
  /\ masks \in { <<>>, << EditorMask >> }
  /\ activeMaskId = IF masks = <<>> THEN <<>> ELSE << 1 >>
  /\ currentFinalLUT = << GeneratedContainer(currentFilm, adjustments.whiteBalance,
                                             adjustments.grading) >>
  /\ \E result \in { applyLUT(originalImage[1], currentFinalLUT[1], adjustments, intensity,
                              masks) } :
       /\ histogramData = << result.histogram >>
       /\ processedCanvas = << result.imageData >>
       /\ random = result.random
       /\ lastCall = << CallRecord(originalImage[1], currentFinalLUT[1], adjustments,
                                   intensity, masks, result) >>
  /\ lutTimer = <<>>
  /\ renderTimer = <<>>
  /\ isProcessing = FALSE
  /\ lastCommit = << "RenderTimerFires" >>
  /\ events = 0
  /\ batch = <<>>
  /\ maskCanvas = <<>>
  /\ brushSettings = defaultBrushSettings

NextBatch ==
  \/ handleBatchUpload
  \/ BatchFile
  \/ handleWBChange
  \/ handleToggleMask
  \/ LutTimerFires
  \/ RenderTimerFires

SpecBatch == InitBatch /\ [][NextBatch]_vars

\* the output the step adds to the zip
NewOutput == batch'[1].zip[Len(batch'[1].zip)]

\* C20: batch processing renders every uploaded file with the cached LUT and
\* with the Adjustments and intensity current when the batch was started,
\* but with an empty mask list: no mask of the editor influences an output
C20_BatchGlobalOnly ==
  [][ /\ (batch = <<>> /\ batch' # <<>>)
        => /\ batch'[1].adjustments = adjustments /\ batch'[1].intensity = intensity
           /\ batch'[1].files \in BatchLists /\ batch'[1].zip = <<>>
      /\ (batch # <<>> /\ batch' # batch)
        => /\ batch'[1].files = Tail(batch[1].files)
           /\ Len(batch'[1].zip) = Len(batch[1].zip) + 1
           /\ Len(batch'[1].zip) + Len(batch'[1].files) = batch[1].total
           /\ NewOutput.pixelData = Head(batch[1].files)
           /\ NewOutput.lut = currentFinalLUT[1]
           /\ NewOutput.adjustments = batch[1].adjustments
           /\ NewOutput.intensity = batch[1].intensity
           /\ NewOutput.masks = <<>>
           /\ NewOutput.result.imageData =
                applyLUT(Head(batch[1].files), currentFinalLUT[1], batch[1].adjustments,
                         batch[1].intensity, <<>>).imageData ]_vars

\* a finished batch of two files, made while the editor had a visible painted
\* mask that changes the render of the first file
C20_Witness ==
  /\ batch # <<>>
  /\ batch[1].files = <<>> /\ Len(batch[1].zip) = 2
  /\ masks # <<>> /\ masks[1].visible /\ masks[1].data[1] > 0
  /\ batch[1].zip[1].result.imageData
       # applyLUT(batch[1].zip[1].pixelData, batch[1].zip[1].lut, batch[1].zip[1].adjustments,
                  batch[1].zip[1].intensity, masks).imageData

\* ---------------------------------------------------------------------
\* Order of the texture pass (applyTexture)
\* ---------------------------------------------------------------------
\* the buffer the texture pass of the last call started from: the output with
\* the colours of the main pass stored in it
BeforeTexture == StoreColours(Call.pixelData.data, Call.result.main)

\* the colour of pixel number p in the buffer the texture pass started from
ColourBefore(p) ==
  << Fix(Byte(BeforeTexture, p, 1)), Fix(Byte(BeforeTexture, p, 2)),
     Fix(Byte(BeforeTexture, p, 3)) >>

\* pixel number p sharpened from the buffer the texture pass started from and
\* from nothing else
SharpenedFromSnapshot(p) ==
  IF Call.adjustments.sharpening > 0
  THEN Sharpen(ColourBefore(p), BeforeTexture, Call.pixelData.width,
               Call.pixelData.height, (p - 1) % Call.pixelData.width,
               (p - 1) \div Call.pixelData.width, Call.adjustments.sharpening)
  ELSE ColourBefore(p)

\* C21: in the texture pass every pixel's sharpen term is computed from the
\* buffer as it was before the pass stored anything, so no grain enters a
\* sharpen computation, and the grain of a pixel is applied to its sharpened
\* colour
C21_SharpenBeforeGrain ==
  (Rendered /\ TextureRan) =>
    \A p \in PixelsOf(Call.pixelData) :
      Call.result.tex[p] =
        IF Call.adjustments.grainAmount > 0
        THEN Grain(SharpenedFromSnapshot(p), (Call.adjustments.grainAmount * ONE) \div 100,
                   Call.result.noise[p])
        ELSE SharpenedFromSnapshot(p)

\* a render with sharpening and grain in which the sharpen branch changed an
\* inner pixel after the grain of the pixel above it or to its left had
\* changed that pixel's bytes in the buffer
C21_Witness ==
  /\ Rendered /\ TextureRan
  /\ Call.adjustments.sharpening > 0 /\ Call.adjustments.grainAmount > 0
  /\ \E p \in PixelsOf(Call.pixelData) :
       /\ SharpenedFromSnapshot(p) # ColourBefore(p)
       /\ \E q \in {p - 1, p - Call.pixelData.width}, k \in 1..3 :
            Byte(Out.data, q, k) # Byte(BeforeTexture, q, k)

\* ---------------------------------------------------------------------
\* Layout of the LUT array: the synthesizer's stores and the pixel
\* processor's reads
\* ---------------------------------------------------------------------
\* channel values of the post-tone colours sampled: the ends of [0, 255],
\* their neighbours, and values inside the first, a middle and the last cell
IndexChannels ==
  {0, 1, Fix(8), Fix(9), Fix(127) + HALF, Fix(247), Fix(255) - 1, Fix(255)}

IndexLUTs ==
  { ProviaLUT,
    GeneratedContainer("Velvia", WarmWB, createDefaultAdjustments.grading) }

InitIndex ==
  /\ currentFinalLUT \in { <<lut>> : lut \in IndexLUTs }
  /\ lastCall \in { << SampleRecord(currentFinalLUT[1], <<r, g, b>>, <<>>) >> :
                      r \in IndexChannels, g \in IndexChannels, b \in IndexChannels }
  /\ originalImage = <<>>
  /\ currentFilm = currentFinalLUT[1].data.type
  /\ intensity = ONE
  /\ adjustments = createDefaultAdjustments
  /\ masks = <<>>
  /\ activeMaskId = <<>>
  /\ lutTimer = <<>>
  /\ renderTimer = <<>>
  /\ isProcessing = FALSE
  /\ histogramData = <<>>
  /\ processedCanvas = <<>>
  /\ random = mulberry32(0)
  /\ lastCommit = <<>>
  /\ events = 0
  /\ batch = <<>>
  /\ maskCanvas = <<>>
  /\ brushSettings = defaultBrushSettings

NextIndex == Sample

SpecIndex == InitIndex /\ [][NextIndex]_vars

\* the eight grid corners read for the colour sampled last
CornersRead == { CellCorner(LutCell(Probe.lut, Probe.colour), n) : n \in 1..8 }

\* C22: the synthesizer stores the triple of grid corner (ri, gi, bi) at index
\* (ri + gi * 32 + bi * 32^2) * 3 and the pixel processor reads the corner
\* from that index, getting the triple stored for it; for every post-tone
\* colour in [0, 255]^3 each of the eight indices read, plus 2, lies within
\* [0, 3 * 32^3 - 1]
C22_SharedLayout ==
  (Sampled /\ Probe.lut.kind = "generated") =>
    \A k \in CornersRead :
      LET idx == GetVIndex(Probe.lut, k[1], k[2], k[3])
          corner == LutCorner(Probe.lut.data.type, Probe.lut.data.wb,
                              Probe.lut.data.grading, k[1], k[2], k[3])
      IN /\ idx = LutIndex(k[1], k[2], k[3])
         /\ idx >= 0
         /\ idx + 2 <= 3 * LUT_SIZE * LUT_SIZE * LUT_SIZE - 1
         /\ LutTriple(Probe.lut, idx)
              = << Fix(corner[1]), Fix(corner[2]), Fix(corner[3]) >>

\* a colour with a channel at 255 was sampled from a synthesized LUT, and the
\* last element of the array was among those read
C22_Witness ==
  /\ Sampled /\ Probe.lut.kind = "generated" /\ Probe.lut.size = LUT_SIZE
  /\ Probe.colour = << Fix(255), Fix(255), Fix(255) >>
  /\ \E k \in CornersRead :
       GetVIndex(Probe.lut, k[1], k[2], k[3]) + 2 = 3 * LUT_SIZE * LUT_SIZE * LUT_SIZE - 1

\* ---------------------------------------------------------------------
\* Host: the mask editor (mask handlers and brush of App.tsx)
\* ---------------------------------------------------------------------
\* the alpha buffers of the masks of the editor, for an image of two pixels
EditorLayer(id, data) ==
  [ id |-> id, visible |-> TRUE, opacity |-> ONE, data |-> data,
    adjustments |-> [createDefaultLocalAdjustments EXCEPT !.exposure = 50] ]

\* the mask lists the editor starts from; the ids are times before the
\* first event
EditorLists ==
  { <<>>, << EditorLayer(-2, <<128, 255>>) >>,
    << EditorLayer(-2, <<128, 255>>), EditorLayer(-1, <<200, 0>>) >> }

\* the brush or the eraser, at the initial flow
EditorBrushes == { [defaultBrushSettings EXCEPT !.isEraser = e] : e \in BOOLEAN }

\* the editor at rest on an image of two pixels: the LUT is cached, the image
\* is rendered, no timer is pending; the active mask, if any, was selected
\* last, so that the canvas holds its alpha buffer
InitMask ==
  /\ originalImage = << TwoPixels(1, 2) >>
  /\ currentFilm = "Provia"
  /\ adjustments = createDefaultAdjustments
  /\ intensity = ONE
  /\ masks \in EditorLists
  /\ activeMaskId \in {<<>>} \cup { << masks[i].id >> : i \in DOMAIN masks }
  /\ maskCanvas =
       << IF activeMaskId = <<>>
          THEN createCanvas(originalImage[1].width, originalImage[1].height)
          ELSE putMask(createCanvas(originalImage[1].width, originalImage[1].height),
                       originalImage[1], FindMask(masks, activeMaskId[1]).data) >>
  /\ brushSettings \in EditorBrushes
  /\ currentFinalLUT = << GeneratedContainer(currentFilm, adjustments.whiteBalance,
                                             adjustments.grading) >>
  /\ \E result \in { applyLUT(originalImage[1], currentFinalLUT[1], adjustments, intensity,
                              masks) } :
       /\ histogramData = << result.histogram >>
       /\ processedCanvas = << result.imageData >>
       /\ random = result.random
       /\ lastCall = << CallRecord(originalImage[1], currentFinalLUT[1], adjustments,
                                   intensity, masks, result) >>
  /\ lutTimer = <<>>
  /\ renderTimer = <<>>
  /\ isProcessing = FALSE
  /\ lastCommit = << "RenderTimerFires" >>
  /\ events = 0
  /\ batch = <<>>

\* the handlers of the mask editor; the timers their commits set fire in Next
\* and write none of masks, activeMaskId and maskCanvas
NextMask ==
  \/ handleUpload
  \/ handleAddMask
  \/ handleDeleteMask
  \/ handleToggleMask
  \/ handleSelectMask
  \/ handleBrushStroke
  \/ handleBrushChange
  \/ handleMouseUp
  \/ handleReset

SpecMask == InitMask /\ [][NextMask]_vars

\* a step of handleBrushStroke that drew on the canvas
BrushDrew ==
  /\ lastCommit' = << "handleBrushStroke" >> /\ events' = events + 1
  /\ activeMaskId # <<>> /\ maskCanvas # <<>>

\* a hundred times the alpha the flow rule gives from the alpha a0:
\* min(255, a0 + f (255 - a0)) when painting, max(0, a0 - f a0) when erasing,
\* f being opacity / 100
FlowRule(settings, a0) ==
  IF settings.isEraser
  THEN (IF 100 * a0 - settings.opacity * a0 < 0 THEN 0
        ELSE 100 * a0 - settings.opacity * a0)
  ELSE (IF 100 * a0 + settings.opacity * (255 - a0) > 25500 THEN 25500
        ELSE 100 * a0 + settings.opacity * (255 - a0))

\* the byte a1 is within 1 of the hundredths h
WithinOne(a1, h) == 100 * a1 - h <= 100 /\ h - 100 * a1 <= 100

\* C23: one brush application with flow f in (0, 1] changes the alpha a of
\* each pixel it covers to min(255, a + f (255 - a)) when painting and to
\* max(0, a - f a) when erasing (to within the rounding of a byte)
C23_FlowRule ==
  [][BrushDrew =>
       \A p \in DOMAIN maskCanvas[1].alpha :
         \/ maskCanvas'[1].alpha[p] = maskCanvas[1].alpha[p]
         \/ WithinOne(maskCanvas'[1].alpha[p], FlowRule(brushSettings, maskCanvas[1].alpha[p]))]_vars

\* the alpha buffer of the mask with the id, in the list ms
DataOf(ms, id) == FindMask(ms, id).data

\* C24: the alpha buffer of a mask changes only when handleMouseUp commits
\* the canvas, and only for the active mask: the buffers of all other masks
\* stay, and with no mask active no buffer changes
C24_CommitOnMouseUp ==
  [][\A id \in MaskIds :
       (id \in { masks'[i].id : i \in DOMAIN masks' }
          /\ DataOf(masks', id) # DataOf(masks, id))
         => (lastCommit' = << "handleMouseUp" >> /\ activeMaskId = << id >>)]_vars

\* handleMouseUp committed strokes to the first of two masks: its buffer is
\* no longer the one it started with and the buffer of the other mask is
C24_Witness ==
  /\ lastCommit = << "handleMouseUp" >>
  /\ Len(masks) = 2 /\ activeMaskId = << -2 >>
  /\ MaskIds = {-2, -1}
  /\ DataOf(masks, -2) # <<128, 255>>
  /\ DataOf(masks, -1) = <<200, 0>>

\* ---------------------------------------------------------------------
\* Intensity 0 and the LUT
\* ---------------------------------------------------------------------
\* the render of the inputs of the last call with another LUT in its place
WithLUT(lut) ==
  applyLUT(Call.pixelData, lut, Call.adjustments, Call.intensity, Call.masks)

\* the colour of pixel number p of the last call before the lookup
ToneAt(p) ==
  GlobalTone(Byte(Call.pixelData.data, p, 1), Byte(Call.pixelData.data, p, 2),
             Byte(Call.pixelData.data, p, 3), Call.adjustments)

\* C25: with intensity 0 the image and the histogram a render returns do not
\* depend on the samples of the LUT: the render of the same inputs with any
\* other LUT returns the same image and the same histogram
C25_LutIndependent ==
  (Rendered /\ Call.intensity = 0) =>
    \A lut \in LUTs :
      /\ WithLUT(lut).imageData = Out
      /\ WithLUT(lut).histogram = Hist

\* a render with intensity 0 of a pixel for which the two LUTs give different
\* samples
C25_Witness ==
  /\ Rendered /\ Call.intensity = 0
  /\ \E lut \in LUTs, p \in PixelsOf(Call.pixelData) :
       /\ lut # Call.lut
       /\ LutLookup(lut, ToneAt(p)) # LutLookup(Call.lut, ToneAt(p))

\* ---------------------------------------------------------------------
\* Host: the LUT a render is paired with
\* ---------------------------------------------------------------------
\* the step is a timer callback whose triggerProcessing got past its early
\* returns and called applyLUT
RenderRan ==
  \/ /\ LutTimerFired
     /\ lutTimer[1].image # <<>> /\ lutTimer[1].image[1].width # 0
  \/ /\ RenderTimerFired /\ ~LutTimerFired
     /\ renderTimer[1].image # <<>> /\ renderTimer[1].image[1].width # 0
     /\ currentFinalLUT # <<>>

\* the LUT of the call was generated from the film and from the white
\* balance and grading of the call's adjustments
LutOf(call, film) ==
  call.lut = GeneratedContainer(film, call.adjustments.whiteBalance,
                                call.adjustments.grading)

\* C26 (as stated): every render the host starts pairs its adjustments with a
\* cached LUT generated from the film selected at that moment and from the
\* white balance and grading of those adjustments
C26_LutOfCurrentFilm ==
  [][RenderRan => LutOf(lastCall'[1], currentFilm)]_vars

\* C26 (amended): every render the host starts pairs its adjustments with a
\* cached LUT generated from the film selected at that moment and from the
\* white balance and grading of those adjustments, unless it is started by
\* the render timer while a LUT timer set by a later commit is pending: that
\* render runs with the LUT cached before, which may have been generated from
\* an earlier film, white balance or grading
C26_LutOfSnapshot ==
  [][RenderRan =>
       \/ LutOf(lastCall'[1], currentFilm)
       \/ /\ RenderTimerFired /\ ~LutTimerFired
          /\ lastCall'[1].lut = currentFinalLUT[1]
          /\ lutTimer' # <<>> /\ lutTimer'[1].id > renderTimer[1].id]_vars

\* the render timer has run a render with the LUT of the film selected
\* before, the LUT timer of the film change being still pending
C26_Witness ==
  /\ lastCommit = << "RenderTimerFires" >> /\ Rendered
  /\ renderTimer = <<>> /\ lutTimer # <<>>
  /\ lutTimer[1].film = currentFilm
  /\ Call.lut.data.type # currentFilm
  /\ LutOf(Call, Call.lut.data.type)
  /\ originalImage = << Call.pixelData >>
  /\ Call.adjustments = adjustments

\* ---------------------------------------------------------------------
\* Host: the render after the last change
\* ---------------------------------------------------------------------
\* setTimeout callbacks are not starved: while a timer is pending, the
\* callback of one that is due runs
SpecLive == Init /\ [][Next]_vars /\ WF_vars(LutTimerFires \/ RenderTimerFires)

\* no timer is pending and the busy flag is down; with an image loaded, the
\* render that ran last had the adjustments, intensity and masks of the
\* editor and the LUT of its film, white balance and grading, which is the
\* LUT cached, and its image and histogram are the ones shown
Settled ==
  /\ lutTimer = <<>> /\ renderTimer = <<>> /\ ~isProcessing
  /\ originalImage # <<>> =>
       /\ Rendered
       /\ Call.pixelData = originalImage[1]
       /\ Call.adjustments = adjustments
       /\ Call.intensity = intensity
       /\ Call.masks = masks
       /\ LutOf(Call, currentFilm)
       /\ currentFinalLUT = << Call.lut >>
       /\ processedCanvas = << Call.result.imageData >>
       /\ histogramData = << Call.result.histogram >>

\* C27: after the user's last change a render completes whose inputs are the
\* final adjustments, intensity and masks with a LUT generated from the final
\* film, white balance and grading; it is the last render to run, and after it
\* no timer is pending and isProcessing is false
C27_FinalRender == <>[]Settled

\* the editor has come to rest on an image after the film and an adjustment
\* were changed
C27_Witness ==
  /\ Settled /\ originalImage # <<>>
  /\ currentFilm # "Provia"
  /\ adjustments # createDefaultAdjustments
  /\ lastCommit \in { << "LutTimerFires" >>, << "RenderTimerFires" >> }

\* ---------------------------------------------------------------------
\* Selective HSL on single pixels: renders of one-pixel images with film
\* None, intensity 1 and every adjustment at its default except one band
\* ---------------------------------------------------------------------
\* the levels of the achromatic pixels rendered
GreyLevels == {0, 1, 64, 128, 200, 254, 255}

\* RGBA of the pixels rendered: greys and three colours
HslColours ==
  { <<v, v, v, 255>> : v \in GreyLevels }
    \cup { <<200, 30, 40, 255>>, <<10, 200, 90, 255>>, <<20, 40, 250, 255>> }

\* the settings given to the band that is moved
HslBandSettings ==
  { [h |-> 50, s |-> 0, l |-> 0], [h |-> 0, s |-> 100, l |-> 0],
    [h |-> 0, s |-> -100, l |-> 0], [h |-> 0, s |-> 0, l |-> 50],
    [h |-> 0, s |-> 0, l |-> -50], [h |-> -180, s |-> 100, l |-> 0] }

InitHsl ==
  /\ currentFilm = FilmNone
  /\ currentFinalLUT = << GeneratedContainer(currentFilm, createDefaultAdjustments.whiteBalance,
                                             createDefaultAdjustments.grading) >>
  /\ originalImage \in { << [width |-> 1, height |-> 1, data |-> c] >> : c \in HslColours }
  /\ intensity = ONE
  /\ adjustments \in { [createDefaultAdjustments EXCEPT !.hsl[band] = setting] :
                         band \in DOMAIN createDefaultAdjustments.hsl,
                         setting \in HslBandSettings \cup {defaultHSLBand} }
  /\ masks = <<>>
  /\ activeMaskId = <<>>
  /\ lutTimer = <<>>
  /\ renderTimer = <<>>
  /\ isProcessing = TRUE
  /\ histogramData = <<>>
  /\ processedCanvas = <<>>
  /\ random = mulberry32(0)
  /\ lastCall = <<>>
  /\ lastCommit = <<>>
  /\ events = 0
  /\ batch = <<>>
  /\ maskCanvas = <<>>
  /\ brushSettings = defaultBrushSettings

NextHsl == Render

SpecHsl == InitHsl /\ [][NextHsl]_vars

\* the pixel rendered last has R = G = B
AchromaticIn ==
  /\ Byte(Call.pixelData.data, 1, 1) = Byte(Call.pixelData.data, 1, 2)
  /\ Byte(Call.pixelData.data, 1, 2) = Byte(Call.pixelData.data, 1, 3)

\* the output pixel is the input pixel, to within one level: the numbers
\* here carry 12 fractional bits, and l * 255 falls short of the level v
\* that l = v / 255 came from by up to 255 / 4096
PixelKept ==
  \A k \in 1..3 :
    Byte(Out.data, 1, k) \in (Byte(Call.pixelData.data, 1, k) - 1)
                               ..(Byte(Call.pixelData.data, 1, k) + 1)

AchromaticKeptBesidesRedL ==
  (Rendered /\ AchromaticIn /\ Call.adjustments.hsl.red.l = 0) => PixelKept

\* the grey (128,128,128) rendered with the luminance of the red band at 50
\* came out at 159 or 160 in every channel: l goes from 128/255 to
\* l + (1 - l) * 0.5 * 0.5, which is 159.75 / 255
RedLuminanceMovedGrey ==
  /\ Rendered
  /\ Call.pixelData.data = <<128, 128, 128, 255>>
  /\ Call.adjustments.hsl.red.l = 50
  /\ \A k \in 1..3 : Byte(Out.data, 1, k) \in 159..160

\* C29: the active mask id is always either null or the id of a mask in the
\* mask list, across every sequence of add-mask, select-mask, delete-mask,
\* toggle-mask, reset and image-upload actions (and of the brush handlers,
\* which write neither)
C29_ActiveInList == activeMaskId = <<>> \/ activeMaskId[1] \in MaskIds

\* a mask other than the active one was deleted, and the active one is the
\* mask that remains
C29_Witness ==
  /\ lastCommit = << "handleDeleteMask" >>
  /\ Len(masks) = 1
  /\ activeMaskId = << masks[1].id >>

\* ---------------------------------------------------------------------
\* The RAW loader: scanTIFFStructure over byte buffers.  lastCall holds the
\* call in progress: its buffer, its locals and how it ended.
\* ---------------------------------------------------------------------
TAG_SUBIFDS == 330

\* byte length of a TIFF data type
getTypeSize(type) ==
  CASE type \in {1, 2, 6, 7} -> 1
    [] type \in {3, 8} -> 2
    [] type \in {4, 9, 11} -> 4
    [] type \in {5, 10, 12} -> 8
    [] OTHER -> 0

\* a DataView read of n bytes at byte offset o stays within the buffer; a
\* read that does not throws a RangeError
InView(data, o, n) == o >= 0 /\ o + n <= Len(data)

getUint8(data, o) == data[o + 1]

getUint16(data, o, littleEndian) ==
  IF littleEndian THEN data[o + 1] + 256 * data[o + 2]
  ELSE 256 * data[o + 1] + data[o + 2]

getInt16(data, o, littleEndian) ==
  Bind(getUint16(data, o, littleEndian), LAMBDA u : IF u >= 32768 THEN u - 65536 ELSE u)

\* the four bytes at o, most significant first
BytesMSB(data, o, littleEndian) ==
  IF littleEndian THEN << data[o + 4], data[o + 3], data[o + 2], data[o + 1] >>
  ELSE << data[o + 1], data[o + 2], data[o + 3], data[o + 4] >>

\* the buffers drawn keep the most significant byte of every four below 128
getUint32(data, o, littleEndian) ==
  Bind(BytesMSB(data, o, littleEndian), LAMBDA b :
    b[1] * 16777216 + b[2] * 65536 + b[3] * 256 + b[4])

getInt32(data, o, littleEndian) ==
  Bind(BytesMSB(data, o, littleEndian), LAMBDA b :
    (IF b[1] >= 128 THEN b[1] - 256 ELSE b[1]) * 16777216 + b[2] * 65536 + b[3] * 256 + b[4])

\* the result of parseValue: thrown (a RangeError), or a value that is an
\* array of numbers or (isArray false) a string
ParseThrown == [thrown |-> TRUE, isArray |-> FALSE, value |-> <<>>]

ParseArray(value) == [thrown |-> FALSE, isArray |-> TRUE, value |-> value]

\* parseValue for the integer types, ASCII and the unknown types; size *
\* count > 4 is written count > 4 \div size, and the reads of a value are in
\* view if the last one is: they run upwards from valOffset.  The value of a
\* FLOAT or DOUBLE tag is not computed (FloatValue)
FloatValue == << >>

parseValue(data, offset, type, count, littleEndian) ==
  LET size == getTypeSize(type)
      stored == size > 0 /\ count > 4 \div size
      valOffset == IF stored THEN getUint32(data, offset, littleEndian) ELSE offset
      reads == IF size = 0 THEN 0 ELSE IF type = 2 THEN count - 1 ELSE count
      readArr(fn(_)) == ParseArray(ForEach(count, LAMBDA i : fn(valOffset + (i - 1) * size)))
  IN IF stored /\ ~InView(data, offset, 4) THEN ParseThrown
     ELSE IF reads > 0 /\ (valOffset > Len(data) \/ reads > (Len(data) - valOffset) \div size)
     THEN ParseThrown
     ELSE CASE type \in {1, 6, 7} -> readArr(LAMBDA o : getUint8(data, o))
            [] type = 2 -> [thrown |-> FALSE, isArray |-> FALSE, value |-> <<>>]
            [] type = 3 -> readArr(LAMBDA o : getUint16(data, o, littleEndian))
            [] type = 8 -> readArr(LAMBDA o : getInt16(data, o, littleEndian))
            [] type = 4 -> readArr(LAMBDA o : getUint32(data, o, littleEndian))
            [] type = 9 -> readArr(LAMBDA o : getInt32(data, o, littleEndian))
            [] type = 5 ->
                 ParseArray(ForEach(2 * count, LAMBDA i :
                   getUint32(data, valOffset + (i - 1) * 4, littleEndian)))
            [] type = 10 ->
                 ParseArray(ForEach(2 * count, LAMBDA i :
                   getInt32(data, valOffset + (i - 1) * 4, littleEndian)))
            [] type \in {11, 12} -> ParseArray(FloatValue)
            [] OTHER -> ParseArray(<<>>)

\* the entry loop of one IFD, from entry i (from 0): the tags stored so far
\* are ifd, a sequence of [tag, type, value] in which a later entry of a tag
\* stands for the assignment that overwrites the earlier one
RECURSIVE ParseEntries(_, _, _, _, _, _)
ParseEntries(data, littleEndian, offset, i, numEntries, ifd) ==
  IF i >= numEntries THEN [thrown |-> FALSE, ifd |-> ifd]
  ELSE LET entryOffset == offset + 2 + i * 12
           tag == getUint16(data, entryOffset, littleEndian)
           type == getUint16(data, entryOffset + 2, littleEndian)
           count == getUint32(data, entryOffset + 4, littleEndian)
       IN Bind(parseValue(data, entryOffset + 8, type, count, littleEndian), LAMBDA v :
            IF v.thrown THEN [thrown |-> TRUE, ifd |-> ifd]
            ELSE ParseEntries(data, littleEndian, offset, i + 1, numEntries,
                              Append(ifd, [tag |-> tag, type |-> type, isArray |-> v.isArray,
                                           value |-> v.value])))

\* ifd["t" + TAG_SUBIFDS] if it is an array, else the empty list
SubIfds(ifd) ==
  LET at == { k \in DOMAIN ifd : ifd[k].tag = TAG_SUBIFDS }
  IN IF at = {} THEN <<>>
     ELSE Bind(ifd[CHOOSE k \in at : \A j \in at : j <= k], LAMBDA e :
            IF e.isArray THEN e.value ELSE <<>>)

\* the call in progress
Scan == lastCall[1]

\* a visited set that forgets, for comparison
Forget(visited, offset) == visited

\* visited.add(offset)
VisitedAdd(visited, offset) == visited \cup {offset}

\* most loop iterations a scan is followed for
MaxScanSteps == 12

\* scanTIFFStructure up to the traversal: the length check, the header and
\* the queue holding the offset of the first IFD
scanTIFFStructure ==
  /\ lastCall # <<>> /\ Scan.status = "called"
  /\ LET data == Scan.buffer
         byteOrder == getUint16(data, 0, FALSE)
         littleEndian == byteOrder # 19789
     IN lastCall' =
          << IF Len(data) < 8 THEN [Scan EXCEPT !.status = "thrown"]
             ELSE [Scan EXCEPT !.status = "running", !.littleEndian = littleEndian,
                               !.queue = << getUint32(data, 4, littleEndian) >>] >>
  /\ UNCHANGED << originalImage, currentFilm, intensity, adjustments, masks, activeMaskId,
                  currentFinalLUT, lutTimer, renderTimer, isProcessing, histogramData,
                  processedCanvas, random, lastCommit, events, batch, maskCanvas,
                  brushSettings >>

\* one iteration of `while (queue.length > 0)`; events counts the iterations
ScanLoop ==
  /\ lastCall # <<>> /\ Scan.status = "running" /\ Scan.queue # <<>>
  /\ events < MaxScanSteps
  /\ LET data == Scan.buffer
         byteLength == Len(data)
         littleEndian == Scan.littleEndian
         offset == Head(Scan.queue)
         shifted == [Scan EXCEPT !.queue = Tail(Scan.queue)]
     IN lastCall' =
          << IF offset = 0 \/ offset >= byteLength - 2 \/ offset % 2 # 0
                \/ offset \in Scan.visited
             THEN shifted
             ELSE IF offset < 0 THEN [shifted EXCEPT !.status = "thrown"]
             ELSE
               LET numEntries == getUint16(data, offset, littleEndian)
                   nextOffsetLoc == offset + 2 + numEntries * 12
                   entered == [shifted EXCEPT !.visited = VisitedAdd(@, offset),
                                              !.parsed = Append(@, offset)]
               IN IF nextOffsetLoc > byteLength THEN entered
                  ELSE Bind(ParseEntries(data, littleEndian, offset, 0, numEntries, <<>>),
                            LAMBDA entries :
                       IF entries.thrown THEN [entered EXCEPT !.status = "thrown"]
                       ELSE LET nextIFD == IF nextOffsetLoc + 4 <= byteLength
                                           THEN getUint32(data, nextOffsetLoc, littleEndian)
                                           ELSE 0
                            IN [entered EXCEPT
                                  !.ifds = Append(@, entries.ifd),
                                  !.queue = @ \o (IF nextIFD # 0 THEN << nextIFD >> ELSE <<>>)
                                              \o SubIfds(entries.ifd)]) >>
  /\ events' = events + 1
  /\ UNCHANGED << originalImage, currentFilm, intensity, adjustments, masks, activeMaskId,
                  currentFinalLUT, lutTimer, renderTimer, isProcessing, histogramData,
                  processedCanvas, random, lastCommit, batch, maskCanvas, brushSettings >>

\* the queue is empty: `return ifds`
ScanReturn ==
  /\ lastCall # <<>> /\ Scan.status = "running" /\ Scan.queue = <<>>
  /\ lastCall' = << [Scan EXCEPT !.status = "returned"] >>
  /\ UNCHANGED << originalImage, currentFilm, intensity, adjustments, masks, activeMaskId,
                  currentFinalLUT, lutTimer, renderTimer, isProcessing, histogramData,
                  processedCanvas, random, lastCommit, events, batch, maskCanvas,
                  brushSettings >>

\* --- the buffers scanned ---
U16(v, littleEndian) ==
  IF littleEndian THEN << v % 256, v \div 256 >> ELSE << v \div 256, v % 256 >>

U32(v, littleEndian) ==
  IF littleEndian THEN U16(v % 65536, TRUE) \o U16(v \div 65536, TRUE)
  ELSE U16(v \div 65536, FALSE) \o U16(v % 65536, FALSE)

\* byte orders: "II", "MM" and an unknown one
ByteOrders == { <<73, 73>>, <<77, 77>>, <<0, 0>> }

\* offsets of the two IFDs laid out, and the length of the whole file
OffsetA == 2 + 2 + 4
OffsetB == OffsetA + 2 + 12 + 4
FileLength == OffsetB + 2 + 4

\* offsets stored in the file: none, either IFD, an odd one, one past the end
StoredOffsets == {0, OffsetA, OffsetB, 9, 40}

\* a file of byte order bo: the header with the first offset, IFD A at 8
\* with one entry and IFD B at 26 with none, cut to length bytes
TiffFile(bo, first, tag, type, count, value, nextA, nextB, length) ==
  LET le == bo # <<77, 77>>
  IN SubSeq(bo \o U16(42, le) \o U32(first, le)
              \o U16(1, le) \o U16(tag, le) \o U16(type, le) \o U32(count, le)
              \o U32(value, le) \o U32(nextA, le)
              \o U16(0, le) \o U32(nextB, le),
            1, length)

TiffFiles ==
  { TiffFile(bo, first, tag, type, count, value, nextA, nextB, length) :
      bo \in ByteOrders, first \in StoredOffsets, tag \in {TAG_SUBIFDS, 256},
      type \in {1, 2, 3, 4, 9}, count \in {1, 2}, value \in {0, OffsetA, OffsetB},
      nextA \in {0, OffsetA, OffsetB}, nextB \in {0, OffsetA, OffsetB},
      length \in {6, FileLength - 2, FileLength} }

InitTiff ==
  /\ lastCall \in { << [ buffer |-> f, status |-> "called", littleEndian |-> FALSE,
                         queue |-> <<>>, visited |-> {}, parsed |-> <<>>, ifds |-> <<>> ] >> :
                      f \in TiffFiles }
  /\ originalImage = <<>>
  /\ currentFilm = "Provia"
  /\ intensity = ONE
  /\ adjustments = createDefaultAdjustments
  /\ masks = <<>>
  /\ activeMaskId = <<>>
  /\ currentFinalLUT = <<>>
  /\ lutTimer = <<>>
  /\ renderTimer = <<>>
  /\ isProcessing = FALSE
  /\ histogramData = <<>>
  /\ processedCanvas = <<>>
  /\ random = mulberry32(0)
  /\ lastCommit = <<>>
  /\ events = 0
  /\ batch = <<>>
  /\ maskCanvas = <<>>
  /\ brushSettings = defaultBrushSettings

NextTiff == scanTIFFStructure \/ ScanLoop \/ ScanReturn

\* the call runs on: a statement that can execute does
SpecTiff == InitTiff /\ [][NextTiff]_vars /\ WF_vars(NextTiff)

\* the call has ended, by `return ifds` or by an exception leaving it
ScanEnded == Scan.status \in {"returned", "thrown"}

\* no offset was entered twice
ParsedOnce == \A i, j \in DOMAIN Scan.parsed : Scan.parsed[i] = Scan.parsed[j] => i = j

\* no tag kept by the scan is a FLOAT or a DOUBLE: the offsets queued here
\* do not depend on values left out
NoFloatTags ==
  \A n \in DOMAIN Scan.ifds : \A k \in DOMAIN Scan.ifds[n] : Scan.ifds[n][k].type \notin {11, 12}

\* C30: scanTIFFStructure terminates on every input buffer, including
\* buffers whose next-IFD or SubIFD offsets form a cycle or point to
\* themselves, and it parses each IFD offset at most once
C30_ScanTerminates == <>ScanEnded /\ []ParsedOnce

\* the scan returned after it parsed both IFDs and met, in the queue, the
\* offset of an IFD it had parsed: IFD B's next offset is IFD A or itself
C30_Witness ==
  /\ Scan.status = "returned"
  /\ Scan.parsed = << OffsetA, OffsetB >>
  /\ Len(Scan.ifds) = 2
  /\ Len(Scan.buffer) = FileLength
  /\ getUint32(Scan.buffer, OffsetB + 2, Scan.littleEndian) \in {OffsetA, OffsetB}

====
